---- MODULE Spec2Model ----
(***************************************************************************)
(* A model of java8script's lazy Stream: a Source, a chain of Processors   *)
(* and the terminal operations of PipelineStream that pull results one at  *)
(* a time through the chain.                                               *)
(*                                                                         *)
(* One pull travels down the chain as a request (pc = "ask", lvl = the     *)
(* node asked) and comes back up as an Optional (pc = "give", lvl = the    *)
(* node that receives it).  lvl = 0 is the Source, 1..Len(procs) are the   *)
(* processors in declaration order, Len(procs) + 1 is the terminal         *)
(* operation.                                                              *)
(***************************************************************************)
EXTENDS Integers, Sequences, FiniteSets, TLC

VARIABLES stream, source, procs, op, pc, lvl, item,
          processingStarted, result, count, container,
          predCalls, pulled, asked,
          invocations, later, earlier, current, sawEmpty

\* what the steps of the pipeline leave alone: the counters of the caller's
\* functions, the operations still to be called and those that returned, and
\* the running value of a fold
ext == <<invocations, later, earlier, current>>

vars == <<stream, source, procs, op, pc, lvl, item,
          processingStarted, result, count, container,
          predCalls, pulled, asked,
          invocations, later, earlier, current, sawEmpty>>

(***************************************************************************)
(* Bounds                                                                  *)
(***************************************************************************)
MaxVal == 3
MaxLen == 3
MaxLimit == 3
\* an infinite source is followed for MaxPull elements
MaxPull == MaxLimit + 2

Values == 1..MaxVal

(***************************************************************************)
(* Optional: the empty sequence is Optional.empty(), <<v>> is Optional.of  *)
(***************************************************************************)
OptionalEmpty == <<>>
OptionalOf(v) == <<v>>
isPresent(o) == o # <<>>
get(o) == o[1]
\* Optional.ofNullable(list.shift()): the head of the list, empty for []
ofNullableShift(list) == IF list = <<>> THEN OptionalEmpty ELSE OptionalOf(Head(list))
shifted(list) == IF list = <<>> THEN <<>> ELSE Tail(list)

(***************************************************************************)
(* Caller-supplied functions, drawn from small families                    *)
(***************************************************************************)
Transformers == {"inc", "dbl"}
Predicates == {"even", "lt3", "never"}
\* consumers: note only takes its argument, failOn2 raises an error when it
\* is given 2
Consumers == {"note", "failOn2"}
\* functions that return an Optional, and functions that return a list
OptionalFunctions == {"identity", "halfOfEven", "ofLt3"}
ListFunctions == {"below", "evenTwice", "shared"}
BiPredicates == {"defaultEquality", "mod2", "succ"}
Comparators == {"default", "reverse", "mod2"}

\* identity is Function.identity(); halfOfEven gives the half of an even
\* number and nothing for an odd one; ofLt3 gives a number below 3 itself
ApplyOptionalFunction(f, x) ==
    CASE f = "identity" -> x
      [] f = "halfOfEven" -> IF x % 2 = 0 THEN OptionalOf(x \div 2) ELSE OptionalEmpty
      [] f = "ofLt3" -> IF x < 3 THEN OptionalOf(x) ELSE OptionalEmpty

\* the contents that the caller gave the list L, of which the function
\* shared (const L = [1, 2]; x => L) returns the one object for every input
SharedList == <<1, 2>>

\* below gives 1, ..., x - 1 (the empty list for 1); evenTwice gives an even
\* number twice and the empty list for an odd one; both make a new list at
\* each call.  shared gives the list L: this is the value of a call while L
\* has the contents its caller gave it
ApplyListFunction(f, x) ==
    CASE f = "below" -> [i \in 1..(x - 1) |-> i]
      [] f = "evenTwice" -> IF x % 2 = 0 THEN <<x, x>> ELSE <<>>
      [] f = "shared" -> SharedList

\* the function f raises an error when it is applied to x
Throws(f, x) == f = "failOn2" /\ x = 2

\* get is o => o.get(); failOn2 adds one, but raises an error for 2
ApplyTransformer(f, x) ==
    CASE f = "inc" -> x + 1
      [] f = "dbl" -> 2 * x
      [] f = "failOn2" -> x + 1
      [] f = "get" -> get(x)
      [] f \in OptionalFunctions -> ApplyOptionalFunction(f, x)

\* isPresent is o => o.isPresent()
ApplyPredicate(p, x) ==
    CASE p = "even" -> x % 2 = 0
      [] p = "lt3" -> x < 3
      [] p = "never" -> FALSE
      [] p = "isPresent" -> isPresent(x)

\* BiPredicate.defaultEquality: i1 === i2
defaultEquality(i1, i2) == i1 = i2

ApplyBiPredicate(e, t, u) ==
    CASE e = "defaultEquality" -> defaultEquality(t, u)
      [] e = "mod2" -> t % 2 = u % 2
      [] e = "succ" -> t = u + 1

\* a default comparator with the signs exchanged
ComparatorDefaultFlipped(i1, i2) ==
    IF i1 < i2 THEN 1 ELSE IF i1 > i2 THEN -1 ELSE 0

\* Comparator.default: -1, 1 or 0 by < and >
ComparatorDefault(i1, i2) ==
    IF i1 < i2 THEN -1 ELSE IF i1 > i2 THEN 1 ELSE 0

ApplyComparator(c, t1, t2) ==
    CASE c = "default" -> ComparatorDefault(t1, t2)
      [] c = "reverse" -> ComparatorDefault(t2, t1)
      [] c = "mod2" -> ComparatorDefault(t1 % 2, t2 % 2)

\* the accumulators given to reduce
BiFunctions == {"sum", "sub"}

ApplyBiFunction(f, a, b) ==
    CASE f = "sum" -> a + b
      [] f = "sub" -> a - b

\* collectors, each a supplier, an accumulator and a finisher over a list
\* container: toList finishes with the list, size with its length
Collectors == {"toList", "size"}

CollectorSupplier(c) == <<>>
CollectorAccumulator(c, a, t) == Append(a, t)
CollectorFinisher(c, a) ==
    CASE c = "toList" -> a
      [] c = "size" -> Len(a)

\* Optional.map(f) and Optional.filter(p) for the caller's function ids
OptionalMap(o, f) == IF isPresent(o) THEN OptionalOf(ApplyTransformer(f, get(o))) ELSE OptionalEmpty
OptionalFilter(o, p) == IF isPresent(o) /\ ApplyPredicate(p, get(o)) THEN o ELSE OptionalEmpty

(***************************************************************************)
(* Processors (src/processor.ts).  A processor is a record: kind, the      *)
(* caller's function fn, the inputs queue, and the per-kind buffers.       *)
(* sharedList is the present contents of the list object L that the        *)
(* function shared holds and returns.                                      *)
(***************************************************************************)
NewProcessor(kind, fn, maxSize) ==
    [kind |-> kind, fn |-> fn, maxSize |-> maxSize, inputs |-> <<>>,
     distinctList |-> OptionalEmpty, sortedList |-> OptionalEmpty, emitted |-> 0,
     outputList |-> <<>>, skipped |-> 0, sharedList |-> SharedList]

mapProcessor(transformer) == NewProcessor("map", transformer, 0)
filterProcessor(p) == NewProcessor("filter", p, 0)
distinctProcessor(comparator) == NewProcessor("distinct", comparator, 0)
sortProcessor(comparator) == NewProcessor("sorted", comparator, 0)
limitProcessor(maxSize) == NewProcessor("limit", "none", maxSize)
optionalFlatMap(transformer) == NewProcessor("flatMapOptional", transformer, 0)
listFlatMapProcessor(transformer) == NewProcessor("flatMapList", transformer, 0)
skipProcessor(numberToSkip) == NewProcessor("skip", "none", numberToSkip)
peekProcessor(consumer) == NewProcessor("peek", consumer, 0)

\* an add that puts the input at the head of the queue
addAtHead(p, input) == [p EXCEPT !.inputs = <<input>> \o @]

\* AbstractProcessor.add: push at the tail of the queue
add(p, input) == [p EXCEPT !.inputs = Append(@, input)]

\* AbstractProcessor.takeNextInput: Optional.ofNullable(this.inputs.shift())
takeNextInput(p) ==
    [proc |-> [p EXCEPT !.inputs = shifted(@)], out |-> ofNullableShift(p.inputs)]

\* a hasNext that overlooks a single queued input
AbstractHasNextMoreThanOne(p) == Len(p.inputs) > 1

\* AbstractProcessor.hasNext
AbstractHasNext(p) == Len(p.inputs) > 0

\* a map that hands its input on without applying the transformer
MapProcessAndGetNextUntransformed(p) == takeNextInput(p)

\* MapProcessor.processAndGetNext: takeNextInput().map(transformer)
MapProcessAndGetNext(p) ==
    LET t == takeNextInput(p)
    IN  [proc |-> t.proc, out |-> OptionalMap(t.out, p.fn)]

\* a filter that keeps what the predicate rejects
FilterProcessAndGetNextNegated(p) ==
    LET t == takeNextInput(p)
    IN  [proc |-> t.proc,
         out |-> IF isPresent(t.out) /\ ~ApplyPredicate(p.fn, get(t.out))
                 THEN t.out ELSE OptionalEmpty]

\* FilterProcessor.processAndGetNext: takeNextInput().filter(predicate)
FilterProcessAndGetNext(p) ==
    LET t == takeNextInput(p)
    IN  [proc |-> t.proc, out |-> OptionalFilter(t.out, p.fn)]

\* a distinct that calls comparator(distinct, item)
RECURSIVE distinctFoldSwapped(_, _, _)
distinctFoldSwapped(comparator, inputs, distinctList) ==
    IF inputs = <<>> THEN distinctList
    ELSE LET it == Head(inputs)
             doesMatchItem(distinct) == ApplyBiPredicate(comparator, distinct, it)
             matchingItems == SelectSeq(distinctList, doesMatchItem)
         IN  distinctFoldSwapped(comparator, Tail(inputs),
                                 IF Len(matchingItems) = 0
                                 THEN Append(distinctList, it) ELSE distinctList)

\* the body of the forEach of processValues: item is kept when no element
\* already in distinctList matches comparator(item, distinct)
RECURSIVE distinctFold(_, _, _)
distinctFold(comparator, inputs, distinctList) ==
    IF inputs = <<>> THEN distinctList
    ELSE LET it == Head(inputs)
             doesMatchItem(distinct) == ApplyBiPredicate(comparator, it, distinct)
             matchingItems == SelectSeq(distinctList, doesMatchItem)
         IN  distinctFold(comparator, Tail(inputs),
                          IF Len(matchingItems) = 0
                          THEN Append(distinctList, it) ELSE distinctList)

\* a processValues that does not reset this.inputs
processValuesKeepsInputs(p) ==
    [p EXCEPT !.distinctList = OptionalOf(distinctFold(p.fn, p.inputs, <<>>))]

\* DistinctProcessor.processValues
processValues(p) ==
    [p EXCEPT !.inputs = <<>>,
              !.distinctList = OptionalOf(distinctFold(p.fn, p.inputs, <<>>))]

\* DistinctProcessor.hasNext
DistinctHasNext(p) ==
    LET distinctListExistsAndHasValues ==
            IF isPresent(p.distinctList) THEN Len(get(p.distinctList)) > 0 ELSE FALSE
    IN  Len(p.inputs) > 0 \/ distinctListExistsAndHasValues

\* DistinctProcessor.processAndGetNext
DistinctProcessAndGetNext(p) ==
    LET q == IF ~isPresent(p.distinctList) THEN processValues(p) ELSE p
    IN  [proc |-> [q EXCEPT !.distinctList = OptionalOf(shifted(get(@)))],
         out |-> ofNullableShift(get(q.distinctList))]

\* ListFlatMapProcessor.processAndGetNext: the next element of outputList;
\* with none left, the list the transformer makes of the next input becomes
\* outputList, and again.  this.outputList = this.transformer(x) keeps the
\* very list object the transformer returned, and outputList.shift() removes
\* the head of that object: a non-empty outputList of the function shared
\* is L itself (the list of the constructor is empty and never shifted), so
\* the shift is a shift of L, and the next call of shared returns L with
\* what is left in it
RECURSIVE ListFlatMapProcessAndGetNext(_)
ListFlatMapProcessAndGetNext(p) ==
    IF Len(p.outputList) > 0
    THEN [proc |-> [p EXCEPT !.outputList = shifted(@),
                             !.sharedList = IF p.fn = "shared" THEN shifted(@) ELSE @],
          out |-> ofNullableShift(p.outputList)]
    ELSE IF Len(p.inputs) > 0
    THEN LET nextSource == takeNextInput(p)
         IN  IF isPresent(nextSource.out)
             THEN ListFlatMapProcessAndGetNext(
                      [nextSource.proc EXCEPT
                          !.outputList = IF p.fn = "shared"
                                         THEN p.sharedList
                                         ELSE ApplyListFunction(p.fn, get(nextSource.out))])
             ELSE [proc |-> nextSource.proc, out |-> OptionalEmpty]
    ELSE [proc |-> p, out |-> OptionalEmpty]

\* a hasNext that overlooks the outputs not handed on yet
ListFlatMapHasNextInputsOnly(p) == Len(p.inputs) > 0

\* ListFlatMapProcessor.hasNext
ListFlatMapHasNext(p) == Len(p.outputList) > 0 \/ Len(p.inputs) > 0

\* ListFlatMapProcessor.isStateless
ListFlatMapIsStateless == TRUE

(***************************************************************************)
(* Stages whose processors are declared by Stream (limit, sorted) but      *)
(* whose code is not in src/processor.ts                                   *)
(***************************************************************************)
\* limit(maxSize): passes queued inputs until maxSize were emitted
LimitIsExhausted(p) == p.emitted >= p.maxSize

LimitHasNext(p) == ~LimitIsExhausted(p) /\ Len(p.inputs) > 0

LimitProcessAndGetNext(p) ==
    IF LimitIsExhausted(p) THEN [proc |-> p, out |-> OptionalEmpty]
    ELSE LET t == takeNextInput(p)
         IN  [proc |-> [t.proc EXCEPT !.emitted = IF isPresent(t.out) THEN @ + 1 ELSE @],
              out |-> t.out]

\* stable insertion of x into a list sorted under comparator c: x goes after
\* every element that is not greater than it
RECURSIVE insertSorted(_, _, _)
insertSorted(c, list, x) ==
    IF list = <<>> THEN <<x>>
    ELSE IF ApplyComparator(c, Head(list), x) > 0 THEN <<x>> \o list
    ELSE <<Head(list)>> \o insertSorted(c, Tail(list), x)

RECURSIVE sortFold(_, _, _)
sortFold(c, inputs, sortedList) ==
    IF inputs = <<>> THEN sortedList
    ELSE sortFold(c, Tail(inputs), insertSorted(c, sortedList, Head(inputs)))

SortHasNext(p) ==
    Len(p.inputs) > 0 \/ (isPresent(p.sortedList) /\ Len(get(p.sortedList)) > 0)

SortProcessAndGetNext(p) ==
    LET q == IF ~isPresent(p.sortedList)
             THEN [p EXCEPT !.inputs = <<>>,
                            !.sortedList = OptionalOf(sortFold(p.fn, p.inputs, <<>>))]
             ELSE p
    IN  [proc |-> [q EXCEPT !.sortedList = OptionalOf(shifted(get(@)))],
         out |-> ofNullableShift(get(q.sortedList))]

\* a flatMapOptional that hands on the input itself when f makes a present
\* Optional of it
OptionalFlatMapKeepsInput(p) ==
    LET t == takeNextInput(p)
    IN  [proc |-> t.proc,
         out |-> IF isPresent(t.out) /\ isPresent(ApplyOptionalFunction(p.fn, get(t.out)))
                 THEN t.out ELSE OptionalEmpty]

\* flatMapOptional(f): the Optional that f makes of the input is the output;
\* Function.identity() hands on the input, itself an Optional
OptionalFlatMapProcessAndGetNext(p) ==
    LET t == takeNextInput(p)
    IN  [proc |-> t.proc,
         out |-> IF isPresent(t.out) THEN ApplyOptionalFunction(p.fn, get(t.out))
                 ELSE OptionalEmpty]

\* skip(n): the first n queued inputs yield nothing, the others are handed
\* on; a negative n skips nothing
SkipProcessAndGetNext(p) ==
    LET t == takeNextInput(p)
    IN  IF isPresent(t.out) /\ p.skipped < p.maxSize
        THEN [proc |-> [t.proc EXCEPT !.skipped = @ + 1], out |-> OptionalEmpty]
        ELSE [proc |-> t.proc, out |-> t.out]

\* peek(consumer): the consumer is given the input, which is handed on
PeekProcessAndGetNext(p) == takeNextInput(p)

\* what processAndGetNext(p) gives the consumer of a peek stage
PeekedBy(p) == IF p.kind = "peek" /\ Len(p.inputs) > 0 THEN <<Head(p.inputs)>> ELSE <<>>

\* processAndGetNext(p) ends with the error that the caller's function
\* raises for the next input
Fails(p) == p.kind \in {"map", "peek"} /\ Len(p.inputs) > 0 /\ Throws(p.fn, Head(p.inputs))

(***************************************************************************)
(* Dispatch over the processor kind (the Processor interface)              *)
(***************************************************************************)
\* a distinct stage that declares itself stateless
DistinctIsStatelessTrue == TRUE

\* DistinctProcessor.isStateless
DistinctIsStateless == FALSE
\* MapProcessor.isStateless
MapIsStateless == TRUE
\* FilterProcessor.isStateless
FilterIsStateless == TRUE

isStateless(p) ==
    CASE p.kind = "distinct" -> DistinctIsStateless
      [] p.kind = "map" -> MapIsStateless
      [] p.kind = "filter" -> FilterIsStateless
      [] p.kind = "sorted" -> FALSE
      [] p.kind = "limit" -> TRUE
      [] p.kind = "flatMapOptional" -> TRUE
      [] p.kind = "flatMapList" -> ListFlatMapIsStateless
      [] p.kind = "skip" -> TRUE
      [] p.kind = "peek" -> TRUE

hasNext(p) ==
    CASE p.kind = "distinct" -> DistinctHasNext(p)
      [] p.kind = "flatMapList" -> ListFlatMapHasNext(p)
      [] p.kind = "sorted" -> SortHasNext(p)
      [] p.kind = "limit" -> LimitHasNext(p)
      [] OTHER -> AbstractHasNext(p)

processAndGetNext(p) ==
    CASE p.kind = "map" -> MapProcessAndGetNext(p)
      [] p.kind = "filter" -> FilterProcessAndGetNext(p)
      [] p.kind = "distinct" -> DistinctProcessAndGetNext(p)
      [] p.kind = "sorted" -> SortProcessAndGetNext(p)
      [] p.kind = "limit" -> LimitProcessAndGetNext(p)
      [] p.kind = "flatMapOptional" -> OptionalFlatMapProcessAndGetNext(p)
      [] p.kind = "flatMapList" -> ListFlatMapProcessAndGetNext(p)
      [] p.kind = "skip" -> SkipProcessAndGetNext(p)
      [] p.kind = "peek" -> PeekProcessAndGetNext(p)

(***************************************************************************)
(* Sources: Stream.of(array) and Stream.iterate(seed, getNext)             *)
(***************************************************************************)
arraySource(array) == [kind |-> "array", array |-> array, index |-> 1, current |-> 0]
\* iterate(1, n -> n + 1)
iterateSource(seed) == [kind |-> "iterate", array |-> <<>>, index |-> 1, current |-> seed]

IsInfinite(s) == s.kind = "iterate"

Abs(n) == IF n < 0 THEN -n ELSE n

\* Source.rangeSource(start, end, step): the step, an Optional that is empty
\* when the caller omitted it and then counts 1, points from start toward end
\* whatever its sign; the range stops before end
rangeSource(startInclusive, endExclusive, step) ==
    LET magnitude == IF isPresent(step) THEN Abs(get(step)) ELSE 1
    IN  [kind |-> "range", next |-> startInclusive, end |-> endExclusive,
         step |-> IF startInclusive <= endExclusive THEN magnitude ELSE -magnitude]

\* a range that hands its bounds over in the other order
rangeSwapped(startInclusive, endExclusive, step) ==
    rangeSource(endExclusive, startInclusive, step)

\* Stream.range
range(startInclusive, endExclusive, step) ==
    rangeSource(startInclusive, endExclusive, step)

\* a closed range that widens the bound by one full step
rangeClosedByStep(startInclusive, endInclusive, step) ==
    LET magnitude == IF isPresent(step) THEN Abs(get(step)) ELSE 1
    IN  IF startInclusive < endInclusive
        THEN range(startInclusive, endInclusive + magnitude, step)
        ELSE range(startInclusive, endInclusive - magnitude, step)

\* Stream.rangeClosed
rangeClosed(startInclusive, endInclusive, step) ==
    IF startInclusive < endInclusive
    THEN range(startInclusive, endInclusive + 1, step)
    ELSE range(startInclusive, endInclusive - 1, step)

\* Source.concatSource(stream1, stream2), the two streams being arrays
concatSource(stream1, stream2) ==
    [kind |-> "concat", stream1 |-> arraySource(stream1), stream2 |-> arraySource(stream2)]

\* the next element of an array source
ArrayNext(s) ==
    IF s.index <= Len(s.array)
    THEN [source |-> [s EXCEPT !.index = @ + 1], out |-> OptionalOf(s.array[s.index])]
    ELSE [source |-> s, out |-> OptionalEmpty]

\* the next value of a range: none once next has reached or passed end
RangeNext(s) ==
    IF (s.step > 0 /\ s.next < s.end) \/ (s.step < 0 /\ s.next > s.end)
    THEN [source |-> [s EXCEPT !.next = @ + s.step], out |-> OptionalOf(s.next)]
    ELSE [source |-> s, out |-> OptionalEmpty]

\* the next of a concatenation: the first stream's next element wrapped
\* present, the second's once the first has none, nothing once both have none
ConcatNext(s) ==
    LET r1 == ArrayNext(s.stream1)
        r2 == ArrayNext(s.stream2)
    IN  IF isPresent(r1.out)
        THEN [source |-> [s EXCEPT !.stream1 = r1.source], out |-> OptionalOf(r1.out)]
        ELSE IF isPresent(r2.out)
        THEN [source |-> [s EXCEPT !.stream2 = r2.source], out |-> OptionalOf(r2.out)]
        ELSE [source |-> s, out |-> OptionalEmpty]

SourceNext(s) ==
    CASE s.kind = "array" -> ArrayNext(s)
      [] s.kind = "range" -> RangeNext(s)
      [] s.kind = "concat" -> ConcatNext(s)
      [] OTHER -> [source |-> [s EXCEPT !.index = @ + 1, !.current = @ + 1],
                   out |-> OptionalOf(s.current)]

(***************************************************************************)
(* Declaring a stream (src/stream/index.ts).  What the caller wrote is     *)
(* kept in stream: the source (of(array) or iterate(seed, n -> n + 1)) and *)
(* the intermediate operations, each [kind, fn, n]; fn = "none" is an      *)
(* omitted optional argument.  The engine's state is source and procs.     *)
(***************************************************************************)
\* ProcessorPipeline.addProcessor, through PipelineStream.newPipeline
newPipeline(pipeline, processor) == Append(pipeline, processor)

map(pipeline, f) == newPipeline(pipeline, mapProcessor(f))

filter(pipeline, p) == newPipeline(pipeline, filterProcessor(p))

distinct(pipeline, equalsFunction) ==
    LET equalsFunctionToUse ==
            IF equalsFunction # "none" THEN equalsFunction ELSE "defaultEquality"
    IN  newPipeline(pipeline, distinctProcessor(equalsFunctionToUse))

sorted(pipeline, comparator) ==
    LET comparatorToUse == IF comparator # "none" THEN comparator ELSE "default"
    IN  newPipeline(pipeline, sortProcessor(comparatorToUse))

\* a limit that lets one element too many through
limitOneMore(pipeline, maxSize) == newPipeline(pipeline, limitProcessor(maxSize + 1))

limit(pipeline, maxSize) == newPipeline(pipeline, limitProcessor(maxSize))

flatMapOptional(pipeline, transformer) == newPipeline(pipeline, optionalFlatMap(transformer))

flatMapList(pipeline, transformer) == newPipeline(pipeline, listFlatMapProcessor(transformer))

\* a skip that takes a negative number for its absolute value
skipAbsolute(pipeline, numberToSkip) == newPipeline(pipeline, skipProcessor(Abs(numberToSkip)))

skip(pipeline, numberToSkip) == newPipeline(pipeline, skipProcessor(numberToSkip))

peek(pipeline, consumer) == newPipeline(pipeline, peekProcessor(consumer))

Declare(pipeline, o) ==
    CASE o.kind = "map" -> map(pipeline, o.fn)
      [] o.kind = "filter" -> filter(pipeline, o.fn)
      [] o.kind = "distinct" -> distinct(pipeline, o.fn)
      [] o.kind = "sorted" -> sorted(pipeline, o.fn)
      [] o.kind = "limit" -> limit(pipeline, o.n)
      [] o.kind = "flatMapOptional" -> flatMapOptional(pipeline, o.fn)
      [] o.kind = "flatMapList" -> flatMapList(pipeline, o.fn)
      [] o.kind = "skip" -> skip(pipeline, o.n)
      [] o.kind = "peek" -> peek(pipeline, o.fn)

RECURSIVE DeclareAll(_, _)
DeclareAll(pipeline, ops) ==
    IF ops = <<>> THEN pipeline
    ELSE DeclareAll(Declare(pipeline, Head(ops)), Tail(ops))

\* a concat that hands its two streams over in the other order
concatSecondFirst(stream1, stream2) == concatSource(stream2, stream1)

\* PipelineStream.concat: the source of ofSource(Source.concatSource(stream1,
\* stream2)); the flatMapOptional(Function.identity()) it declares on top is
\* the first of the stream's operations
concat(stream1, stream2) == concatSource(stream1, stream2)

\* Stream.of / Stream.iterate / Stream.range / Stream.rangeClosed /
\* Stream.concat: PipelineStream.ofSource(...)
ofSource(s) ==
    CASE s.kind = "of" -> arraySource(s.array)
      [] s.kind = "range" -> range(s.start, s.end, s.step)
      [] s.kind = "rangeClosed" -> rangeClosed(s.start, s.end, s.step)
      [] s.kind = "concat" -> concat(s.first, s.second)
      [] OTHER -> iterateSource(s.seed)

(***************************************************************************)
(* The streams explored                                                    *)
(***************************************************************************)
BoundedSeq(S, n) == UNION {[1..k -> S] : k \in 0..n}

OpMap(f) == [kind |-> "map", fn |-> f, n |-> 0]
OpFilter(p) == [kind |-> "filter", fn |-> p, n |-> 0]
OpDistinct(e) == [kind |-> "distinct", fn |-> e, n |-> 0]
OpSorted(c) == [kind |-> "sorted", fn |-> c, n |-> 0]
OpLimit(n) == [kind |-> "limit", fn |-> "none", n |-> n]

ArrayStreams == {[kind |-> "of", array |-> a, seed |-> 0] : a \in BoundedSeq(Values, MaxLen)}
InfiniteStreams == {[kind |-> "iterate", array |-> <<>>, seed |-> 1]}
AllStreams == ArrayStreams \cup InfiniteStreams

Limits == 0..MaxLimit

StatelessOps ==
    {<<>>}
    \cup {<<OpMap(f)>> : f \in Transformers}
    \cup {<<OpFilter(p)>> : p \in Predicates}
    \cup {<<OpFilter("lt3"), OpMap("inc")>>, <<OpMap("dbl"), OpFilter("lt3")>>}

LimitOps == {<<OpLimit(n)>> : n \in Limits}

StatelessLimitOps ==
    {<<OpFilter(p), OpLimit(n)>> : p \in Predicates, n \in Limits}
    \cup {<<OpLimit(n), OpFilter(p)>> : p \in Predicates, n \in Limits}
    \cup {<<OpMap("inc"), OpLimit(n)>> : n \in Limits}

StatefulOp ==
    {OpDistinct(e) : e \in {"none", "mod2", "succ"}}
    \cup {OpSorted(c) : c \in {"none", "reverse", "mod2"}}

StatefulOps == {<<s>> : s \in StatefulOp}
LimitThenStateful == {<<OpLimit(n), s>> : n \in Limits, s \in StatefulOp}
StatefulThenLimit == {<<s, OpLimit(n)>> : n \in Limits, s \in StatefulOp}

TerminalPredicates == {"even", "lt3"}
MatchOps ==
    {[name |-> n, predicate |-> q] :
        n \in {"allMatch", "anyMatch", "noneMatch"}, q \in TerminalPredicates}
OtherOps == {[name |-> n, predicate |-> "none"] : n \in {"count", "findFirst", "toArray"}}
AllOps == MatchOps \cup OtherOps

Scenarios ==
    (AllStreams \X StatelessOps \X AllOps)
    \cup (AllStreams \X LimitOps \X OtherOps)
    \cup (InfiniteStreams \X StatelessLimitOps \X OtherOps)
    \cup (AllStreams \X StatefulOps \X OtherOps)
    \cup (InfiniteStreams \X LimitThenStateful \X AllOps)
    \cup (InfiniteStreams \X StatefulThenLimit \X OtherOps)

NoInvocations ==
    [fn |-> 0, supplier |-> 0, accumulator |-> 0, finisher |-> 0, combiner |-> 0,
     peeked |-> <<>>]

Init ==
    \E sc \in Scenarios :
        /\ stream = [src |-> sc[1], ops |-> sc[2]]
        /\ source = ofSource(sc[1])
        /\ procs = DeclareAll(<<>>, sc[2])
        /\ op = sc[3]
        /\ pc = "call"
        /\ lvl = Len(sc[2]) + 1
        /\ item = OptionalEmpty
        /\ processingStarted = FALSE
        /\ result = "pending"
        /\ count = 0
        /\ container = <<>>
        /\ predCalls = 0
        /\ pulled = 0
        /\ asked = [k \in 0..Len(sc[2]) |-> 0]
        /\ invocations = NoInvocations
        /\ later = <<>>
        /\ earlier = <<>>
        /\ current = OptionalEmpty
        /\ sawEmpty = FALSE

Terminal == Len(procs) + 1

(***************************************************************************)
(* What the run records about the caller's functions: how often the        *)
(* functions given to the intermediate operations (fn) and a collector's   *)
(* supplier, accumulator, finisher and combiner were invoked               *)
(***************************************************************************)
\* the number of times distinctFold calls the comparator: each item is
\* compared with every element kept before it
RECURSIVE distinctCalls(_, _, _)
distinctCalls(comparator, inputs, distinctList) ==
    IF inputs = <<>> THEN 0
    ELSE LET it == Head(inputs)
             doesMatchItem(kept) == ApplyBiPredicate(comparator, it, kept)
             matchingItems == SelectSeq(distinctList, doesMatchItem)
         IN  Len(distinctList)
             + distinctCalls(comparator, Tail(inputs),
                             IF Len(matchingItems) = 0
                             THEN Append(distinctList, it) ELSE distinctList)

\* the number of times processAndGetNext(p) invokes the function the caller
\* gave to the stage
FnCalls(p) ==
    CASE p.kind \in {"map", "filter", "peek"} -> IF Len(p.inputs) > 0 THEN 1 ELSE 0
      [] p.kind = "distinct" ->
            IF isPresent(p.distinctList) THEN 0 ELSE distinctCalls(p.fn, p.inputs, <<>>)
      [] p.kind = "sorted" ->
            IF isPresent(p.sortedList) \/ Len(p.inputs) < 2 THEN 0 ELSE Len(p.inputs) - 1
      [] p.kind = "flatMapOptional" -> IF Len(p.inputs) > 0 THEN 1 ELSE 0
      [] p.kind = "flatMapList" -> Len(p.inputs) - Len(processAndGetNext(p).proc.inputs)
      [] OTHER -> 0

\* a pull that comes back empty to the terminal operation is remembered
NoteEmpty ==
    sawEmpty' = (sawEmpty \/ (pc' = "give" /\ lvl' = Len(procs) + 1 /\ ~isPresent(item')))

(***************************************************************************)
(* PipelineStream.getNextProcessedItem: a terminal operation asks the      *)
(* pipeline for its next result                                            *)
(***************************************************************************)
\* a getNextProcessedItem that starts the source afresh on the first pull of
\* a second operation
GetNextProcessedItemFresh ==
    /\ pc = "call"
    /\ processingStarted' = TRUE
    /\ lvl' = Len(procs)
    /\ pc' = "ask"
    /\ asked' = [asked EXCEPT ![Len(procs)] = @ + 1]
    /\ source' = IF earlier # <<>> /\ asked[Len(procs)] = earlier[Len(earlier)].asked
                 THEN ofSource(stream.src) ELSE source
    /\ UNCHANGED <<ext, sawEmpty, stream, procs, op, item, result, count, container,
                   predCalls, pulled>>

GetNextProcessedItem ==
    /\ pc = "call"
    /\ processingStarted' = TRUE
    /\ lvl' = Len(procs)
    /\ pc' = "ask"
    /\ asked' = [asked EXCEPT ![Len(procs)] = @ + 1]
    /\ UNCHANGED <<ext, sawEmpty, stream, source, procs, op, item, result, count, container, predCalls, pulled>>

(***************************************************************************)
(* ProcessorPipeline.getNextResult, one step at a time                     *)
(***************************************************************************)
\* the request reaches the source: it hands over its next element or empty.
\* An infinite source is followed for MaxPull elements.
SourceGetNext ==
    /\ pc = "ask" /\ lvl = 0
    /\ IsInfinite(source) => pulled < MaxPull
    /\ LET r == SourceNext(source)
       IN  /\ source' = r.source
           /\ item' = r.out
           /\ pulled' = IF isPresent(r.out) THEN pulled + 1 ELSE pulled
    /\ lvl' = 1
    /\ pc' = "give"
    /\ UNCHANGED <<ext, stream, procs, op, processingStarted, result, count, container,
                   predCalls, asked>>
    /\ NoteEmpty

\* a limit stage that emitted its bound answers empty and asks nobody
ShortCircuit ==
    /\ pc = "ask" /\ lvl \in 1..Len(procs)
    /\ procs[lvl].kind = "limit" /\ LimitIsExhausted(procs[lvl])
    /\ item' = OptionalEmpty
    /\ lvl' = lvl + 1
    /\ pc' = "give"
    /\ UNCHANGED <<ext, stream, source, procs, op, processingStarted, result, count, container,
                   predCalls, pulled, asked>>
    /\ NoteEmpty

\* does the node asked have to pull from the node before it?  A stateful
\* stage is given all the inputs first; a stateless one pulls when its queue
\* holds nothing to process
NeedsUpstream(p) ==
    /\ ~(p.kind = "limit" /\ LimitIsExhausted(p))
    /\ ~isStateless(p) \/ ~hasNext(p)

PullUpstream ==
    /\ pc = "ask" /\ lvl \in 1..Len(procs)
    /\ NeedsUpstream(procs[lvl])
    /\ lvl' = lvl - 1
    /\ asked' = [asked EXCEPT ![lvl - 1] = @ + 1]
    /\ UNCHANGED <<ext, sawEmpty, stream, source, procs, op, pc, item, processingStarted, result, count,
                   container, predCalls, pulled>>

\* a stateless stage processes its queued input; an empty output (a rejected
\* element) makes the node try again, and an error that the caller's
\* function raises ends the pull and the terminal operation that made it
ProcessQueued ==
    /\ pc = "ask" /\ lvl \in 1..Len(procs)
    /\ ~(procs[lvl].kind = "limit" /\ LimitIsExhausted(procs[lvl]))
    /\ isStateless(procs[lvl]) /\ hasNext(procs[lvl])
    /\ IF Fails(procs[lvl])
       THEN /\ procs' = [procs EXCEPT ![lvl] = takeNextInput(@).proc]
            /\ pc' = "failed"
            /\ UNCHANGED <<item, lvl>>
       ELSE LET r == processAndGetNext(procs[lvl])
            IN  /\ procs' = [procs EXCEPT ![lvl] = r.proc]
                /\ IF isPresent(r.out)
                   THEN item' = r.out /\ lvl' = lvl + 1 /\ pc' = "give"
                   ELSE UNCHANGED <<item, lvl, pc>>
    /\ invocations' = [invocations EXCEPT !.fn = @ + FnCalls(procs[lvl]),
                                          !.peeked = @ \o PeekedBy(procs[lvl])]
    /\ UNCHANGED <<later, earlier, current, sawEmpty, stream, source, op, processingStarted,
                   result, count, container, predCalls, pulled, asked>>

\* the node before hands over an element: add() it and try again
Feed ==
    /\ pc = "give" /\ lvl \in 1..Len(procs)
    /\ isPresent(item)
    /\ procs' = [procs EXCEPT ![lvl] = add(@, get(item))]
    /\ pc' = "ask"
    /\ UNCHANGED <<ext, sawEmpty, stream, source, op, lvl, item, processingStarted, result, count, container,
                   predCalls, pulled, asked>>

\* the node before is exhausted: a stateless stage has nothing more, a
\* stateful one now emits from what it was given
UpstreamExhausted ==
    /\ pc = "give" /\ lvl \in 1..Len(procs)
    /\ ~isPresent(item)
    /\ IF isStateless(procs[lvl])
       THEN UNCHANGED <<procs, item, invocations>>
       ELSE LET r == processAndGetNext(procs[lvl])
            IN  /\ procs' = [procs EXCEPT ![lvl] = r.proc]
                /\ item' = r.out
                /\ invocations' = [invocations EXCEPT !.fn = @ + FnCalls(procs[lvl])]
    /\ lvl' = lvl + 1
    /\ UNCHANGED <<later, earlier, current, stream, source, op, pc, processingStarted,
                   result, count, container, predCalls, pulled, asked>>
    /\ NoteEmpty

(***************************************************************************)
(* Terminal operations of PipelineStream: each handles the Optional the    *)
(* pipeline gave back and either asks again or returns                     *)
(***************************************************************************)
AtTerminal(name) == pc = "give" /\ lvl = Terminal /\ op.name = name

Return(value) == result' = value /\ pc' = "done"

\* an allMatch that notes a failing element (in count) and goes on pulling
AllMatchNoShortCircuit ==
    /\ AtTerminal("allMatch")
    /\ IF isPresent(item)
       THEN /\ predCalls' = predCalls + 1
            /\ count' = IF ApplyPredicate(op.predicate, get(item)) = FALSE THEN 1 ELSE count
            /\ pc' = "call" /\ UNCHANGED result
       ELSE Return(count = 0) /\ UNCHANGED <<predCalls, count>>
    /\ UNCHANGED <<ext, sawEmpty, stream, source, procs, op, lvl, item, processingStarted, container,
                   pulled, asked>>

AllMatch ==
    /\ AtTerminal("allMatch")
    /\ IF isPresent(item)
       THEN /\ predCalls' = predCalls + 1
            /\ IF ApplyPredicate(op.predicate, get(item)) = FALSE
               THEN Return(FALSE)
               ELSE pc' = "call" /\ UNCHANGED result
       ELSE Return(TRUE) /\ UNCHANGED predCalls
    /\ UNCHANGED <<ext, sawEmpty, stream, source, procs, op, lvl, item, processingStarted, count, container,
                   pulled, asked>>

NoneMatch ==
    /\ AtTerminal("noneMatch")
    /\ IF isPresent(item)
       THEN /\ predCalls' = predCalls + 1
            /\ IF ApplyPredicate(op.predicate, get(item)) = TRUE
               THEN Return(FALSE)
               ELSE pc' = "call" /\ UNCHANGED result
       ELSE Return(TRUE) /\ UNCHANGED predCalls
    /\ UNCHANGED <<ext, sawEmpty, stream, source, procs, op, lvl, item, processingStarted, count, container,
                   pulled, asked>>

\* an anyMatch that is vacuously true when the pipeline is exhausted
AnyMatchVacuous ==
    /\ AtTerminal("anyMatch")
    /\ IF isPresent(item)
       THEN /\ predCalls' = predCalls + 1
            /\ IF ApplyPredicate(op.predicate, get(item)) = TRUE
               THEN Return(TRUE)
               ELSE pc' = "call" /\ UNCHANGED result
       ELSE Return(TRUE) /\ UNCHANGED predCalls
    /\ UNCHANGED <<ext, sawEmpty, stream, source, procs, op, lvl, item, processingStarted, count, container,
                   pulled, asked>>

AnyMatch ==
    /\ AtTerminal("anyMatch")
    /\ IF isPresent(item)
       THEN /\ predCalls' = predCalls + 1
            /\ IF ApplyPredicate(op.predicate, get(item)) = TRUE
               THEN Return(TRUE)
               ELSE pc' = "call" /\ UNCHANGED result
       ELSE Return(FALSE) /\ UNCHANGED predCalls
    /\ UNCHANGED <<ext, sawEmpty, stream, source, procs, op, lvl, item, processingStarted, count, container,
                   pulled, asked>>

\* a count that also counts the pull that came back empty
CountDoWhile ==
    /\ AtTerminal("count")
    /\ IF isPresent(item)
       THEN count' = count + 1 /\ pc' = "call" /\ UNCHANGED result
       ELSE Return(count + 1) /\ UNCHANGED count
    /\ UNCHANGED <<ext, sawEmpty, stream, source, procs, op, lvl, item, processingStarted, container,
                   predCalls, pulled, asked>>

Count ==
    /\ AtTerminal("count")
    /\ IF isPresent(item)
       THEN count' = count + 1 /\ pc' = "call" /\ UNCHANGED result
       ELSE Return(count) /\ UNCHANGED count
    /\ UNCHANGED <<ext, sawEmpty, stream, source, procs, op, lvl, item, processingStarted, container,
                   predCalls, pulled, asked>>

FindFirst ==
    /\ AtTerminal("findFirst")
    /\ Return(item)
    /\ UNCHANGED <<ext, sawEmpty, stream, source, procs, op, lvl, item, processingStarted, count, container,
                   predCalls, pulled, asked>>

\* a collect whose loop is an if: it returns after the first element
ToArrayOnce ==
    /\ AtTerminal("toArray")
    /\ IF isPresent(item)
       THEN container' = Append(container, get(item)) /\ Return(container')
       ELSE Return(container) /\ UNCHANGED container
    /\ UNCHANGED <<ext, sawEmpty, stream, source, procs, op, lvl, item, processingStarted, count,
                   predCalls, pulled, asked>>

\* toArray() is collect(Collectors.toList()): the container is a list, the
\* accumulator pushes, the finisher returns the list
ToArray ==
    /\ AtTerminal("toArray")
    /\ IF isPresent(item)
       THEN container' = Append(container, get(item)) /\ pc' = "call" /\ UNCHANGED result
       ELSE Return(container) /\ UNCHANGED container
    /\ UNCHANGED <<ext, sawEmpty, stream, source, procs, op, lvl, item, processingStarted, count,
                   predCalls, pulled, asked>>

Next ==
    \/ GetNextProcessedItem
    \/ SourceGetNext
    \/ ShortCircuit
    \/ PullUpstream
    \/ ProcessQueued
    \/ Feed
    \/ UpstreamExhausted
    \/ AllMatch
    \/ NoneMatch
    \/ AnyMatch
    \/ Count
    \/ FindFirst
    \/ ToArray

Spec == Init /\ [][Next]_vars

\* the code runs its next step whenever there is one
FairSpec == Spec /\ WF_vars(Next)

(***************************************************************************)
(* A stream over its whole life: the caller creates it (pc = "idle", no    *)
(* processor yet), declares its intermediate operations one by one, then   *)
(* calls one terminal operation after another on the same stream.          *)
(***************************************************************************)
OpFlatMapOptional(f) == [kind |-> "flatMapOptional", fn |-> f, n |-> 0]
OpFlatMapList(f) == [kind |-> "flatMapList", fn |-> f, n |-> 0]
OpSkip(n) == [kind |-> "skip", fn |-> "none", n |-> n]
OpPeek(c) == [kind |-> "peek", fn |-> c, n |-> 0]

Declared == Len(procs) = Len(stream.ops)

\* a declaration that also runs the source for a first element
DeclareOpEager ==
    /\ pc = "idle" /\ ~Declared
    /\ procs' = Declare(procs, stream.ops[Len(procs) + 1])
    /\ LET r == SourceNext(source)
       IN  source' = r.source /\ pulled' = IF isPresent(r.out) THEN pulled + 1 ELSE pulled
    /\ UNCHANGED <<ext, sawEmpty, stream, op, pc, lvl, item, processingStarted, result, count,
                   container, predCalls, asked>>

\* an intermediate operation of PipelineStream: a new stream over the
\* pipeline with one more processor
DeclareOp ==
    /\ pc = "idle" /\ ~Declared
    /\ procs' = Declare(procs, stream.ops[Len(procs) + 1])
    /\ UNCHANGED <<ext, sawEmpty, stream, source, op, pc, lvl, item, processingStarted, result,
                   count, container, predCalls, pulled, asked>>

\* the caller calls the terminal operation op: what the operation does
\* before its first getNextProcessedItem()
Invoke ==
    /\ pc = "idle" /\ Declared
    /\ op.name # "hasNext"
    /\ pc' = "call"
    /\ lvl' = Terminal
    /\ container' = IF op.name \in {"collect", "collect3"}
                    THEN CollectorSupplier(op.fn) ELSE <<>>
    /\ invocations' = IF op.name \in {"collect", "collect3"}
                      THEN [invocations EXCEPT !.supplier = @ + 1] ELSE invocations
    /\ current' = IF op.name = "reduce" THEN op.initialValue ELSE OptionalEmpty
    /\ UNCHANGED <<later, earlier, sawEmpty, stream, source, procs, op, item,
                   processingStarted, result, count, predCalls, pulled, asked>>

\* the number of elements the pipeline has handed to the running operation
Delivered ==
    CASE op.name \in {"allMatch", "anyMatch", "noneMatch"} -> predCalls
      [] op.name = "count" -> count
      [] op.name \in {"toArray", "collect", "collect3", "tryAdvance", "forEach"} ->
            Len(container)
      [] op.name \in {"findFirst", "getNext"} -> IF pc = "done" THEN Len(result) ELSE 0
      [] op.name = "hasNext" -> 0
      [] op.name \in {"max", "min"} -> count
      [] op.name = "reduce" ->
            IF isPresent(op.initialValue) THEN invocations.accumulator
            ELSE IF isPresent(current) THEN invocations.accumulator + 1 ELSE 0

\* the operation has returned, or ended with an error, and the caller calls
\* the next one on the same stream; the locals of the operation start afresh
NextOperation ==
    /\ pc \in {"done", "failed"} /\ later # <<>>
    /\ earlier' = Append(earlier, [op |-> op, result |-> result, delivered |-> Delivered,
                                   container |-> container, asked |-> asked[Len(procs)],
                                   failed |-> (pc = "failed")])
    /\ op' = Head(later)
    /\ later' = Tail(later)
    /\ pc' = "idle"
    /\ result' = "pending"
    /\ count' = 0
    /\ container' = <<>>
    /\ predCalls' = 0
    /\ current' = OptionalEmpty
    /\ invocations' = [NoInvocations EXCEPT !.fn = invocations.fn,
                                            !.peeked = invocations.peeked]
    /\ UNCHANGED <<sawEmpty, stream, source, procs, lvl, item, processingStarted, pulled, asked>>

\* the source can give another element, or a stage holds a queued input or
\* an output not handed on yet
PipelineHasNext ==
    \/ isPresent(SourceNext(source).out)
    \/ \E i \in 1..Len(procs) : hasNext(procs[i])

\* StreamIterator.hasNext(): what the pipeline answers; nothing is pulled
HasNext ==
    /\ pc = "idle" /\ Declared
    /\ op.name = "hasNext"
    /\ Return(PipelineHasNext)
    /\ UNCHANGED <<ext, sawEmpty, stream, source, procs, op, lvl, item, processingStarted,
                   count, container, predCalls, pulled, asked>>

\* StreamIterator.getNext(): the next processed item
GetNext ==
    /\ AtTerminal("getNext")
    /\ Return(item)
    /\ UNCHANGED <<ext, sawEmpty, stream, source, procs, op, lvl, item, processingStarted,
                   count, container, predCalls, pulled, asked>>

\* a forEachOrdered that catches the error of its consumer and goes on
ForEachOrderedCatches ==
    /\ AtTerminal("forEach")
    /\ IF isPresent(item)
       THEN /\ container' = Append(container, get(item))
            /\ pc' = "call" /\ UNCHANGED result
       ELSE Return(<<>>) /\ UNCHANGED container
    /\ UNCHANGED <<ext, sawEmpty, stream, source, procs, op, lvl, item, processingStarted,
                   count, predCalls, pulled, asked>>

\* forEachOrdered(consumer), which forEach(consumer) calls: the consumer,
\* which notes what it is given in container, is applied to every item; its
\* error ends the loop and the call
ForEachOrdered ==
    /\ AtTerminal("forEach")
    /\ IF isPresent(item)
       THEN /\ container' = Append(container, get(item))
            /\ pc' = IF Throws(op.fn, get(item)) THEN "failed" ELSE "call"
            /\ UNCHANGED result
       ELSE Return(<<>>) /\ UNCHANGED container
    /\ UNCHANGED <<ext, sawEmpty, stream, source, procs, op, lvl, item, processingStarted,
                   count, predCalls, pulled, asked>>

\* a tryAdvance that returns true without applying the consumer
TryAdvanceSkipsConsumer ==
    /\ AtTerminal("tryAdvance")
    /\ IF isPresent(item) THEN Return(TRUE) ELSE Return(FALSE)
    /\ UNCHANGED <<ext, sawEmpty, stream, source, procs, op, lvl, item, processingStarted,
                   count, predCalls, pulled, asked, container>>

\* StreamIterator.tryAdvance(consumer): the consumer, which notes what it is
\* given in container, is applied to the next element if there is one
TryAdvance ==
    /\ AtTerminal("tryAdvance")
    /\ IF isPresent(item)
       THEN container' = Append(container, get(item)) /\ Return(TRUE)
       ELSE Return(FALSE) /\ UNCHANGED container
    /\ UNCHANGED <<ext, sawEmpty, stream, source, procs, op, lvl, item, processingStarted,
                   count, predCalls, pulled, asked>>

\* a collect that calls the supplier again for each element
CollectFreshContainer ==
    /\ AtTerminal("collect")
    /\ IF isPresent(item)
       THEN /\ container' = CollectorAccumulator(op.fn, CollectorSupplier(op.fn), get(item))
            /\ invocations' = [invocations EXCEPT !.accumulator = @ + 1, !.supplier = @ + 1]
            /\ pc' = "call" /\ UNCHANGED result
       ELSE /\ Return(CollectorFinisher(op.fn, container))
            /\ invocations' = [invocations EXCEPT !.finisher = @ + 1]
            /\ UNCHANGED container
    /\ UNCHANGED <<later, earlier, current, sawEmpty, stream, source, procs, op, lvl, item,
                   processingStarted, count, predCalls, pulled, asked>>

\* collect(collector): the loop and the return of the Collector branch
Collect ==
    /\ AtTerminal("collect")
    /\ IF isPresent(item)
       THEN /\ container' = CollectorAccumulator(op.fn, container, get(item))
            /\ invocations' = [invocations EXCEPT !.accumulator = @ + 1]
            /\ pc' = "call" /\ UNCHANGED result
       ELSE /\ Return(CollectorFinisher(op.fn, container))
            /\ invocations' = [invocations EXCEPT !.finisher = @ + 1]
            /\ UNCHANGED container
    /\ UNCHANGED <<later, earlier, current, sawEmpty, stream, source, procs, op, lvl, item,
                   processingStarted, count, predCalls, pulled, asked>>

\* a reduce that hands the accumulator its arguments in the other order
ReduceSwapped ==
    /\ AtTerminal("reduce")
    /\ IF isPresent(item)
       THEN /\ IF isPresent(current)
               THEN /\ current' = OptionalOf(ApplyBiFunction(op.fn, get(item), get(current)))
                    /\ invocations' = [invocations EXCEPT !.accumulator = @ + 1]
               ELSE current' = item /\ UNCHANGED invocations
            /\ pc' = "call" /\ UNCHANGED result
       ELSE Return(current) /\ UNCHANGED <<current, invocations>>
    /\ UNCHANGED <<later, earlier, sawEmpty, stream, source, procs, op, lvl, item,
                   processingStarted, count, container, predCalls, pulled, asked>>

\* reduce(accumulator, initialValue): current is currentValue, which Invoke
\* set to Optional.ofNullable(initialValue)
Reduce ==
    /\ AtTerminal("reduce")
    /\ IF isPresent(item)
       THEN /\ IF isPresent(current)
               THEN /\ current' = OptionalOf(ApplyBiFunction(op.fn, get(current), get(item)))
                    /\ invocations' = [invocations EXCEPT !.accumulator = @ + 1]
               ELSE current' = item /\ UNCHANGED invocations
            /\ pc' = "call" /\ UNCHANGED result
       ELSE Return(current) /\ UNCHANGED <<current, invocations>>
    /\ UNCHANGED <<later, earlier, sawEmpty, stream, source, procs, op, lvl, item,
                   processingStarted, count, container, predCalls, pulled, asked>>

\* the comparator max and min use: Comparator.default() when none is given
comparatorToUse(comparator) == IF comparator # "none" THEN comparator ELSE "default"

\* a max that replaces the best so far when the next element is not smaller
MaxKeepsLast ==
    /\ AtTerminal("max")
    /\ LET maxValue == IF count = 0 THEN item ELSE current
       IN  IF isPresent(item)
           THEN /\ current' = IF ApplyComparator(comparatorToUse(op.fn),
                                                get(item), get(maxValue)) >= 0
                               THEN item ELSE maxValue
                /\ count' = count + 1
                /\ pc' = "call" /\ UNCHANGED result
           ELSE Return(maxValue) /\ UNCHANGED <<current, count>>
    /\ UNCHANGED <<invocations, later, earlier, sawEmpty, stream, source, procs, op, lvl, item,
                   processingStarted, container, predCalls, pulled, asked>>

\* max(comparator): current is maxValue, item is nextValue; the first pull
\* (count = 0) sets both, so the first element is compared with itself
Max ==
    /\ AtTerminal("max")
    /\ LET maxValue == IF count = 0 THEN item ELSE current
       IN  IF isPresent(item)
           THEN /\ current' = IF ApplyComparator(comparatorToUse(op.fn),
                                                get(item), get(maxValue)) > 0
                               THEN item ELSE maxValue
                /\ count' = count + 1
                /\ pc' = "call" /\ UNCHANGED result
           ELSE Return(maxValue) /\ UNCHANGED <<current, count>>
    /\ UNCHANGED <<invocations, later, earlier, sawEmpty, stream, source, procs, op, lvl, item,
                   processingStarted, container, predCalls, pulled, asked>>

\* min(comparator): current is minValue
Min ==
    /\ AtTerminal("min")
    /\ LET minValue == IF count = 0 THEN item ELSE current
       IN  IF isPresent(item)
           THEN /\ current' = IF ApplyComparator(comparatorToUse(op.fn),
                                                get(item), get(minValue)) < 0
                               THEN item ELSE minValue
                /\ count' = count + 1
                /\ pc' = "call" /\ UNCHANGED result
           ELSE Return(minValue) /\ UNCHANGED <<current, count>>
    /\ UNCHANGED <<invocations, later, earlier, sawEmpty, stream, source, procs, op, lvl, item,
                   processingStarted, container, predCalls, pulled, asked>>

\* what a call hands back: <<v>> for "return v", <<>> for a call that ends
\* without a return statement (undefined)
Returned(v) == <<v>>
Undefined == <<>>

\* collect(supplier, accumulator, combiner): the branch runs customCollect,
\* whose loop this is, and ends without returning the container that
\* customCollect hands back
CollectThreeArgs ==
    /\ AtTerminal("collect3")
    /\ IF isPresent(item)
       THEN /\ container' = CollectorAccumulator(op.fn, container, get(item))
            /\ invocations' = [invocations EXCEPT !.accumulator = @ + 1]
            /\ pc' = "call" /\ UNCHANGED result
       ELSE /\ Return(Undefined)
            /\ UNCHANGED <<container, invocations>>
    /\ UNCHANGED <<later, earlier, current, sawEmpty, stream, source, procs, op, lvl, item,
                   processingStarted, count, predCalls, pulled, asked>>

(***************************************************************************)
(* The streams and calls explored over a stream's whole life               *)
(***************************************************************************)
TerminalOp(name, fn, initialValue) ==
    [name |-> name, predicate |-> "none", fn |-> fn, initialValue |-> initialValue]

SimpleOp(name) == [name |-> name, predicate |-> "none"]
MatchOp(name, p) == [name |-> name, predicate |-> p]

FoldOps ==
    LET ReduceOps ==
            {TerminalOp("reduce", f, seed) :
                f \in BiFunctions, seed \in {OptionalEmpty, OptionalOf(1), OptionalOf(MaxVal)}}
        ExtremeOps ==
            {TerminalOp(n, c, OptionalEmpty) :
                n \in {"max", "min"}, c \in {"none", "reverse", "mod2"}}
        CollectOps ==
            {TerminalOp("collect", c, OptionalEmpty) : c \in Collectors}
            \cup {TerminalOp("collect3", "toList", OptionalEmpty)}
    IN  ReduceOps \cup ExtremeOps \cup CollectOps

Scenario(src, ops, calls) == [src |-> src, ops |-> ops, calls |-> calls]

\* one folding operation over an array, all of it or its even elements, and
\* the sum of [1, 2, 3, 4]
FoldScenarios ==
    {Scenario(src, ops, <<o>>) :
        src \in ArrayStreams, ops \in {<<>>, <<OpFilter("even")>>}, o \in FoldOps}
    \cup {Scenario([kind |-> "of", array |-> <<1, 2, 3, 4>>, seed |-> 0], <<>>,
                   <<TerminalOp("reduce", "sum", OptionalEmpty)>>)}

\* the arrays shorter than MaxLen, and the array 1, ..., MaxLen
LifeStreams ==
    {[kind |-> "of", array |-> a, seed |-> 0] :
        a \in BoundedSeq(Values, MaxLen - 1) \cup {[i \in 1..MaxLen |-> i]}}

\* operations that take some of the elements, then toArray() for the rest
PartialCalls ==
    {<<SimpleOp("findFirst")>>, <<SimpleOp("tryAdvance")>>,
     <<SimpleOp("tryAdvance"), SimpleOp("tryAdvance")>>,
     <<MatchOp("anyMatch", "even")>>, <<MatchOp("noneMatch", "even")>>,
     <<MatchOp("allMatch", "lt3")>>}

ReplayOps == {<<>>, <<OpFilter("even")>>, <<OpMap("inc")>>, <<OpLimit(MaxLimit - 1)>>}

ReplayScenarios ==
    {Scenario(src, ops, calls \o <<SimpleOp("toArray")>>) :
        src \in LifeStreams, ops \in ReplayOps, calls \in PartialCalls}

\* an operation that exhausts the stream, then a second operation
ExhaustedScenarios ==
    LET ExhaustingOps == {SimpleOp("count"), SimpleOp("toArray")}
        AfterOps ==
            {SimpleOp("count"), SimpleOp("toArray"), SimpleOp("findFirst"),
             MatchOp("allMatch", "never"), MatchOp("anyMatch", "even")}
        ExhaustedOps == ReplayOps \cup {<<OpDistinct("none")>>, <<OpSorted("none")>>}
    IN  {Scenario(src, ops, <<first, second>>) :
            src \in LifeStreams, ops \in ExhaustedOps,
            first \in ExhaustingOps, second \in AfterOps}

\* range and rangeClosed, read whole
RangeStreams ==
    LET RangeEnds == (-1)..(MaxVal + 2)
        Steps == {OptionalEmpty} \cup {OptionalOf(k) : k \in ((1 - MaxVal)..(MaxVal - 1)) \ {0}}
    IN  {[kind |-> k, start |-> a, end |-> b, step |-> st] :
            k \in {"range", "rangeClosed"}, a \in RangeEnds, b \in RangeEnds, st \in Steps}

RangeScenarios == {Scenario(src, <<>>, <<SimpleOp("toArray")>>) : src \in RangeStreams}

\* concat(s1, s2) of two array streams: the source of Optionals and the
\* flatMapOptional(Function.identity()) that concat declares
ConcatStreams ==
    {[kind |-> "concat", first |-> a, second |-> b] :
        a \in BoundedSeq(1..2, MaxLen - 1), b \in BoundedSeq(Values, MaxLen - 1)}

ConcatScenarios ==
    {Scenario(src, <<OpFlatMapOptional("identity")>>, <<SimpleOp("toArray")>>) :
        src \in ConcatStreams}

\* chains of up to two declarations over an empty array, the array
\* 1, ..., MaxLen and the infinite source
ChainScenarios ==
    LET ChainOp ==
            {OpMap("inc"), OpFilter("even"), OpLimit(MaxLimit - 1), OpDistinct("none"),
             OpSorted("reverse")}
        ChainStreams ==
            {[kind |-> "of", array |-> a, seed |-> 0] : a \in {<<>>, [i \in 1..MaxLen |-> i]}}
            \cup InfiniteStreams
    IN  {Scenario(src, ops, <<o>>) :
            src \in ChainStreams, ops \in BoundedSeq(ChainOp, 2),
            o \in {SimpleOp("findFirst"), SimpleOp("toArray")}}

\* flatMapList over every array, alone and before a limit or a distinct
FlattenScenarios ==
    LET FlattenOps == {<<OpFlatMapList(f)>> : f \in ListFunctions}
        FlattenChains ==
            {<<OpFlatMapList(f), o>> :
                f \in ListFunctions, o \in {OpLimit(1), OpDistinct("none")}}
            \cup {<<OpFilter("even"), OpFlatMapList("below")>>}
    IN  {Scenario(src, ops, <<SimpleOp("toArray")>>) :
            src \in ArrayStreams, ops \in FlattenOps}
        \cup {Scenario(src, ops, <<SimpleOp("toArray")>>) :
                  src \in LifeStreams, ops \in FlattenChains}

\* skip(n) over every array, for n from -1 to beyond the longest array
SkipScenarios ==
    LET SkipCounts == (-1)..(MaxLen + 1)
    IN  {Scenario(src, <<OpSkip(n)>>, <<SimpleOp("toArray")>>) :
            src \in ArrayStreams, n \in SkipCounts}

\* flatMapOptional(f) and map(f).filter(o => o.isPresent()).map(o => o.get())
\* over every array
FlatMapOptionalScenarios ==
    LET FlatMapOptionalOps ==
            {<<OpFlatMapOptional(f)>> : f \in OptionalFunctions \ {"identity"}}
            \cup {<<OpMap(f), OpFilter("isPresent"), OpMap("get")>> :
                      f \in OptionalFunctions \ {"identity"}}
    IN  {Scenario(src, ops, <<SimpleOp("toArray")>>) :
            src \in ArrayStreams, ops \in FlatMapOptionalOps}

\* hasNext() and then getNext(), on a fresh stream and after one tryAdvance
IteratorScenarios ==
    LET IteratorCalls ==
            {<<SimpleOp("hasNext"), SimpleOp("getNext")>>,
             <<SimpleOp("tryAdvance"), SimpleOp("hasNext"), SimpleOp("getNext")>>}
    IN  {Scenario(src, ops, calls) :
            src \in LifeStreams, ops \in ReplayOps \cup {<<OpFilter("never")>>},
            calls \in IteratorCalls}

\* forEach called three times on a stream whose map transformer, peek
\* consumer or forEach consumer raises an error for 2
FailureScenarios ==
    LET FailingOps ==
            {<<OpPeek("note"), OpMap("failOn2")>>, <<OpMap("failOn2"), OpPeek("note")>>,
             <<OpPeek("failOn2")>>, <<OpPeek("note")>>}
    IN  {Scenario(src, ops, [i \in 1..3 |-> TerminalOp("forEach", c, OptionalEmpty)]) :
            src \in LifeStreams, ops \in FailingOps, c \in Consumers}

StreamScenarios ==
    IteratorScenarios \cup FailureScenarios \cup FoldScenarios \cup ReplayScenarios \cup ExhaustedScenarios \cup RangeScenarios
    \cup ConcatScenarios \cup ChainScenarios \cup FlattenScenarios \cup SkipScenarios
    \cup FlatMapOptionalScenarios

StreamInit ==
    \E sc \in StreamScenarios :
        /\ stream = [src |-> sc.src, ops |-> sc.ops]
        /\ source = ofSource(sc.src)
        /\ procs = <<>>
        /\ op = Head(sc.calls)
        /\ later = Tail(sc.calls)
        /\ earlier = <<>>
        /\ pc = "idle"
        /\ lvl = Len(sc.ops) + 1
        /\ item = OptionalEmpty
        /\ processingStarted = FALSE
        /\ result = "pending"
        /\ count = 0
        /\ container = <<>>
        /\ predCalls = 0
        /\ pulled = 0
        /\ asked = [k \in 0..Len(sc.ops) |-> 0]
        /\ invocations = NoInvocations
        /\ current = OptionalEmpty
        /\ sawEmpty = FALSE

StreamNext ==
    \/ DeclareOp
    \/ Invoke
    \/ NextOperation
    \/ TryAdvance
    \/ HasNext
    \/ GetNext
    \/ ForEachOrdered
    \/ Collect
    \/ CollectThreeArgs
    \/ Reduce
    \/ Max
    \/ Min
    \/ Next

StreamSpec == StreamInit /\ [][StreamNext]_vars

(***************************************************************************)
(* One processor on its own: a caller that holds a processor calls add()   *)
(* and processAndGetNext() in any order.  earlier is the list of the calls *)
(* made, container the values that processAndGetNext() returned.           *)
(***************************************************************************)
ProcessorInit ==
    LET Processors ==
            {mapProcessor("inc"), filterProcessor("even"),
             distinctProcessor("defaultEquality"), distinctProcessor("mod2"),
             sortProcessor("default"), limitProcessor(MaxLimit - 1), skipProcessor(1),
             peekProcessor("note"), optionalFlatMap("halfOfEven")}
            \cup {listFlatMapProcessor(f) : f \in ListFunctions}
    IN  \E processor \in Processors :
            /\ procs = <<processor>>
            /\ stream = [src |-> [kind |-> "of", array |-> <<>>, seed |-> 0], ops |-> <<>>]
            /\ source = arraySource(<<>>)
            /\ op = [name |-> "processor", predicate |-> "none"]
            /\ later = <<>>
            /\ earlier = <<>>
            /\ pc = "processor"
            /\ lvl = 1
            /\ item = OptionalEmpty
            /\ processingStarted = FALSE
            /\ result = "pending"
            /\ count = 0
            /\ container = <<>>
            /\ predCalls = 0
            /\ pulled = 0
            /\ asked = [k \in 0..1 |-> 0]
            /\ invocations = NoInvocations
            /\ current = OptionalEmpty
            /\ sawEmpty = FALSE

\* the caller calls add(input); it makes at most MaxLen + 2 calls
CallAdd ==
    \E input \in Values :
        /\ pc = "processor" /\ Len(earlier) < MaxLen + 2
        /\ procs' = [procs EXCEPT ![1] = add(@, input)]
        /\ earlier' = Append(earlier, [name |-> "add", input |-> input, out |-> OptionalEmpty])
        /\ UNCHANGED <<invocations, later, current, sawEmpty, stream, source, op, pc, lvl, item,
                       processingStarted, result, count, container, predCalls, pulled, asked>>

\* the caller calls processAndGetNext() and keeps what it returns
CallProcessAndGetNext ==
    /\ pc = "processor" /\ Len(earlier) < MaxLen + 2
    /\ LET r == processAndGetNext(procs[1])
       IN  /\ procs' = [procs EXCEPT ![1] = r.proc]
           /\ item' = r.out
           /\ container' = IF isPresent(r.out) THEN Append(container, get(r.out)) ELSE container
           /\ earlier' = Append(earlier, [name |-> "processAndGetNext", input |-> 0,
                                          out |-> r.out])
    /\ invocations' = [invocations EXCEPT !.fn = @ + FnCalls(procs[1]),
                                          !.peeked = @ \o PeekedBy(procs[1])]
    /\ UNCHANGED <<later, current, sawEmpty, stream, source, op, pc, lvl,
                   processingStarted, result, count, predCalls, pulled, asked>>

ProcessorNext ==
    \/ CallAdd
    \/ CallProcessAndGetNext

ProcessorSpec == ProcessorInit /\ [][ProcessorNext]_vars

(***************************************************************************)
(* Vocabulary of the properties                                            *)
(***************************************************************************)
Done == pc = "done"
IsFinite == stream.src.kind = "of"
Kinds == [i \in 1..Len(stream.ops) |-> stream.ops[i].kind]

\* the j-th element of the declared source
SourceElem(j) == IF IsFinite THEN stream.src.array[j] ELSE stream.src.seed + (j - 1)
\* the positions of the source that the model can reach
SourcePositions == IF IsFinite THEN 1..Len(stream.src.array) ELSE 1..MaxPull

\* the elements of list at the positions K, in order
Restrict(list, K) ==
    LET F[i \in 0..Len(list)] ==
            IF i = 0 THEN <<>>
            ELSE IF i \in K THEN Append(F[i - 1], list[i]) ELSE F[i - 1]
    IN  F[Len(list)]

LimitOnInfinite == ~IsFinite /\ Kinds = <<"limit">> /\ op.name = "toArray"

\* C1: limit(n) on the infinite source iterate(1, x -> x + 1) makes toArray()
\* return, and what it returns is the first n elements in order: 1, ..., n.
C1_LimitOnInfiniteTerminates ==
    LimitOnInfinite
        => <>(/\ LimitOnInfinite
              /\ Done
              /\ result = [i \in 1..stream.ops[1].n |-> stream.src.seed + (i - 1)])

C1_Witness ==
    /\ LimitOnInfinite
    /\ stream.ops[1].n = 3
    /\ Done /\ result = <<1, 2, 3>>

\* C2: once a limit(n) stage has emitted n elements, no step pulls another
\* element from the source or asks the node before the limit again, the limit
\* emits nothing more, a request that reaches it is answered empty, and a
\* further input added to it would change none of that.
C2_LimitStopsPulling ==
    [][\A i \in 1..Len(procs) :
          (procs[i].kind = "limit" /\ procs[i].emitted >= stream.ops[i].n)
              => /\ pulled' = pulled
                 /\ asked'[i - 1] = asked[i - 1]
                 /\ procs'[i].emitted = procs[i].emitted
                 /\ (pc = "ask" /\ lvl = i)
                        => (pc' = "give" /\ lvl' = i + 1 /\ item' = OptionalEmpty)
                 /\ \A x \in Values :
                        /\ ~hasNext(add(procs[i], x))
                        /\ processAndGetNext(add(procs[i], x)).out = OptionalEmpty]_vars

\* limit(2).sorted().toArray() on the infinite source: the limit was asked
\* again after its second element, and the source was asked twice only
C2_Witness ==
    /\ Done /\ ~IsFinite /\ op.name = "toArray"
    /\ Kinds = <<"limit", "sorted">> /\ stream.ops[1].n = 2
    /\ procs[1].emitted = 2
    /\ asked[1] > 3
    /\ asked[0] = 2 /\ pulled = 2

(***************************************************************************)
(* What a chain of map and filter operations makes of one element, and of  *)
(* a list                                                                  *)
(***************************************************************************)
IsStatelessChain(ops) == \A i \in 1..Len(ops) : ops[i].kind \in {"map", "filter"}

RECURSIVE Through(_, _)
Through(ops, o) ==
    IF ops = <<>> \/ ~isPresent(o) THEN o
    ELSE LET h == Head(ops)
             x == get(o)
         IN  Through(Tail(ops),
                     IF h.kind = "map" THEN OptionalOf(ApplyTransformer(h.fn, x))
                     ELSE IF ApplyPredicate(h.fn, x) THEN o ELSE OptionalEmpty)

Denote(ops, list) ==
    LET F[i \in 0..Len(list)] ==
            IF i = 0 THEN <<>>
            ELSE LET o == Through(ops, OptionalOf(list[i]))
                 IN  IF isPresent(o) THEN Append(F[i - 1], get(o)) ELSE F[i - 1]
    IN  F[Len(list)]

\* C3: in a pipeline of map and filter stages that ends with map(f) over a
\* finite source, toArray() has the length of what the stages before map(f)
\* yield, and its i-th element is f of their i-th element.
C3_MapElementwise ==
    (/\ IsFinite /\ op.name = "toArray" /\ Done
     /\ Len(stream.ops) >= 1 /\ IsStatelessChain(stream.ops)
     /\ stream.ops[Len(stream.ops)].kind = "map")
        => LET f == stream.ops[Len(stream.ops)].fn
               upstream == Denote(SubSeq(stream.ops, 1, Len(stream.ops) - 1),
                                  stream.src.array)
           IN  /\ Len(result) = Len(upstream)
               /\ \A i \in 1..Len(upstream) : result[i] = ApplyTransformer(f, upstream[i])

C3_Witness ==
    /\ IsFinite /\ op.name = "toArray" /\ Done
    /\ stream.ops = <<OpFilter("lt3"), OpMap("inc")>>
    /\ stream.src.array = <<1, 3, 2>>
    /\ result = <<2, 3>>

\* C4: filter(p).count() over a finite source is the number of source
\* elements that satisfy p, wherever the rejected elements are.
C4_FilterCount ==
    (IsFinite /\ op.name = "count" /\ Done /\ Kinds = <<"filter">>)
        => result = Cardinality({j \in 1..Len(stream.src.array) :
                                    ApplyPredicate(stream.ops[1].fn, stream.src.array[j])})

\* the rejected elements are consecutive and last
C4_Witness ==
    /\ IsFinite /\ op.name = "count" /\ Done
    /\ stream.ops = <<OpFilter("even")>>
    /\ stream.src.array = <<2, 1, 3>>
    /\ result = 1

(***************************************************************************)
(* allMatch, anyMatch, noneMatch                                           *)
(***************************************************************************)
IsMatch == op.name \in {"allMatch", "anyMatch", "noneMatch"}

\* the stream yields no element at all
EmptySequence ==
    \/ /\ IsFinite /\ IsStatelessChain(stream.ops)
       /\ Denote(stream.ops, stream.src.array) = <<>>
    \/ /\ Len(stream.ops) >= 1
       /\ stream.ops[1].kind = "limit" /\ stream.ops[1].n = 0

\* C5: on an empty sequence allMatch returns true, anyMatch false, noneMatch
\* true, and the predicate is never invoked.
C5_MatchOnEmpty ==
    (IsMatch /\ EmptySequence)
        => /\ predCalls = 0
           /\ Done => result = (op.name # "anyMatch")

C5_Witness ==
    /\ IsMatch /\ op.name = "anyMatch" /\ Done
    /\ IsFinite /\ stream.src.array = <<>> /\ stream.ops = <<>>
    /\ result = FALSE /\ predCalls = 0

MatchDetermines(v) ==
    IF op.name = "allMatch" THEN ~ApplyPredicate(op.predicate, v)
    ELSE ApplyPredicate(op.predicate, v)

\* the source positions whose element reaches the terminal operation and
\* determines its result
DeterminingPositions ==
    {j \in SourcePositions :
        LET o == Through(stream.ops, OptionalOf(SourceElem(j)))
        IN  isPresent(o) /\ MatchDetermines(get(o))}

FirstDetermining == CHOOSE j \in DeterminingPositions : \A k \in DeterminingPositions : j <= k

\* how many of the first j source elements reach the terminal operation
DeliveredUpTo(j) ==
    Cardinality({i \in 1..j : isPresent(Through(stream.ops, OptionalOf(SourceElem(i))))})

ShortCircuits == IsMatch /\ IsStatelessChain(stream.ops) /\ DeterminingPositions # {}

\* C6: on a stateless pipeline, finite or infinite, whose output holds a
\* determining element (one failing the predicate for allMatch, one satisfying
\* it for anyMatch and noneMatch), the operation returns false, true, false
\* respectively, and when it has returned the source has been pulled up to
\* the first such element and no further, and the predicate has been invoked
\* once per element delivered up to it and not again.
C6_MatchShortCircuits ==
    ShortCircuits
        => <>(/\ ShortCircuits
              /\ Done
              /\ result = (op.name = "anyMatch")
              /\ pulled = FirstDetermining
              /\ predCalls = DeliveredUpTo(FirstDetermining))

\* allMatch(x < 3) on iterate(1, +1) stops at 3
C6_Witness ==
    /\ ~IsFinite /\ stream.ops = <<>>
    /\ op = [name |-> "allMatch", predicate |-> "lt3"]
    /\ Done /\ result = FALSE
    /\ pulled = 3 /\ predCalls = 3

\* the equality test the caller declared
EqualsUnder(e, x, k) ==
    CASE e = "none" -> x = k
      [] e = "mod2" -> x % 2 = k % 2
      [] e = "succ" -> x = k + 1

\* out holds, in input order, exactly the elements of in that no kept element
\* before them equals
IsDistinctOf(out, in, e) ==
    \E K \in SUBSET (1..Len(in)) :
        /\ out = Restrict(in, K)
        /\ \A i \in 1..Len(in) :
              (i \in K) <=> ~\E j \in K : j < i /\ EqualsUnder(e, in[i], in[j])

\* C7: distinct(eq).toArray() over a finite input is the subsequence of the
\* input, in order, of the elements x for which no previously kept element k
\* has eq(x, k).
C7_DistinctFirstOccurrences ==
    (IsFinite /\ op.name = "toArray" /\ Done /\ Kinds = <<"distinct">>)
        => IsDistinctOf(result, stream.src.array, stream.ops[1].fn)

C7_Witness ==
    /\ IsFinite /\ op.name = "toArray" /\ Done
    /\ stream.ops = <<OpDistinct("none")>>
    /\ stream.src.array = <<1, 2, 1>>
    /\ result = <<1, 2>>

Sign(a, b) == IF a < b THEN -1 ELSE IF a > b THEN 1 ELSE 0

\* the ordering the caller declared; none is the ordering by < and >
OrderUnder(c, a, b) ==
    CASE c = "none" -> Sign(a, b)
      [] c = "reverse" -> Sign(b, a)
      [] c = "mod2" -> Sign(a % 2, b % 2)

\* out is a permutation of in, non-decreasing under c, in which elements
\* that compare equal keep their input order
IsStableSortOf(out, in, c) ==
    /\ Len(out) = Len(in)
    /\ \E perm \in [1..Len(in) -> 1..Len(in)] :
          /\ \A j, k \in 1..Len(in) : j # k => perm[j] # perm[k]
          /\ \A j \in 1..Len(in) : out[j] = in[perm[j]]
          /\ \A j, k \in 1..Len(in) :
                j < k => /\ OrderUnder(c, out[j], out[k]) <= 0
                         /\ OrderUnder(c, out[j], out[k]) = 0 => perm[j] < perm[k]

\* C8: sorted(c).toArray() over a finite input is a permutation of the input,
\* non-decreasing under c, and stable; without a comparator the order is the
\* one of < and >.
C8_SortedStable ==
    (IsFinite /\ op.name = "toArray" /\ Done /\ Kinds = <<"sorted">>)
        => IsStableSortOf(result, stream.src.array, stream.ops[1].fn)

\* sorted() on [3,1,2]
C8_Witness ==
    /\ IsFinite /\ op.name = "toArray" /\ Done
    /\ stream.ops = <<OpSorted("none")>>
    /\ stream.src.array = <<3, 1, 2>>
    /\ result = <<1, 2, 3>>

LimitThenStatefulOnInfinite ==
    /\ ~IsFinite /\ Len(stream.ops) = 2
    /\ stream.ops[1].kind = "limit"
    /\ stream.ops[2].kind \in {"distinct", "sorted"}

\* C9: limit(n).distinct() and limit(n).sorted() on the infinite increasing
\* source: every terminal operation returns, and when it has returned the
\* source has been pulled exactly n times, the limit has passed n elements
\* and the stateful stage has emptied its queue; toArray() with the default
\* equality or ordering returns 1, ..., n.
C9_StatefulAfterLimitTerminates ==
    LimitThenStatefulOnInfinite
        => <>(/\ LimitThenStatefulOnInfinite
              /\ Done
              /\ pulled = stream.ops[1].n
              /\ procs[1].emitted = stream.ops[1].n
              /\ procs[2].inputs = <<>>
              /\ (op.name = "toArray" /\ stream.ops[2].fn = "none")
                     => result = [i \in 1..stream.ops[1].n |-> stream.src.seed + (i - 1)])

\* limit(3).distinct().findFirst()
C9_Witness ==
    /\ LimitThenStatefulOnInfinite /\ Done
    /\ stream.ops = <<OpLimit(3), OpDistinct("none")>>
    /\ op.name = "findFirst" /\ result = <<1>>
    /\ pulled = 3 /\ asked[0] = 3

StatefulOnInfinite ==
    /\ ~IsFinite /\ Len(stream.ops) >= 1
    /\ stream.ops[1].kind \in {"distinct", "sorted"}

\* a limit(0) declared after the stateful stage
HasLaterLimitZero ==
    \E i \in 2..Len(stream.ops) : stream.ops[i].kind = "limit" /\ stream.ops[i].n = 0

IsReplayable(ops) == \A i \in 1..Len(ops) : ops[i].kind \in {"map", "filter", "limit"}

StageYields(o, list) ==
    CASE o.kind = "map" -> [i \in 1..Len(list) |-> ApplyTransformer(o.fn, list[i])]
      [] o.kind = "filter" -> LET Keeps(x) == ApplyPredicate(o.fn, x) IN SelectSeq(list, Keeps)
      [] o.kind = "limit" -> SubSeq(list, 1, IF o.n < Len(list) THEN o.n ELSE Len(list))

RECURSIVE Yields(_, _)
Yields(ops, list) ==
    IF ops = <<>> THEN list ELSE Yields(Tail(ops), StageYields(Head(ops), list))

\* the number of elements handed to the first i operations that returned
RECURSIVE DeliveredBefore(_)
DeliveredBefore(i) == IF i = 0 THEN 0 ELSE DeliveredBefore(i - 1) + earlier[i].delivered

\* the elements an operation that returned is known to have been handed
KnowsSeen(e) == e.op.name \in {"findFirst", "tryAdvance", "toArray"}
Seen(e) == IF e.op.name = "findFirst" THEN e.result ELSE e.container

\* C11: on an array stream of map, filter and limit stages, when terminal
\* operations are called one after another on the same stream, each one is
\* handed the elements that follow those handed to the operations before it:
\* findFirst and tryAdvance get the next element, a short-circuited match
\* consumes the elements up to its determining one, and the last toArray()
\* returns exactly the rest of the stream's output, in order.
C11_NeverReplayed ==
    (IsFinite /\ IsReplayable(stream.ops))
        => LET out == Yields(stream.ops, stream.src.array)
           IN  /\ \A i \in 1..Len(earlier) :
                     /\ DeliveredBefore(i) <= Len(out)
                     /\ KnowsSeen(earlier[i])
                            => Seen(earlier[i])
                                   = SubSeq(out, DeliveredBefore(i - 1) + 1, DeliveredBefore(i))
               /\ (Done /\ op.name = "toArray")
                      => result = SubSeq(out, DeliveredBefore(Len(earlier)) + 1, Len(out))

\* two tryAdvance calls took 1 and 2 of [1, 2, 3]; toArray() returned [3]
C11_Witness ==
    /\ IsFinite /\ stream.src.array = <<1, 2, 3>> /\ stream.ops = <<>>
    /\ Len(earlier) = 2
    /\ earlier[1].op.name = "tryAdvance" /\ earlier[1].container = <<1>>
    /\ earlier[2].op.name = "tryAdvance" /\ earlier[2].container = <<2>>
    /\ Done /\ op.name = "toArray" /\ result = <<3>>

\* the stream was exhausted before the running operation was called: the
\* operation before it returned on an empty pull
CalledOnExhausted ==
    /\ earlier # <<>>
    /\ earlier[Len(earlier)].op.name \in {"count", "toArray"}

\* C12: once a pull has come back empty to a terminal operation, every later
\* pull on the same stream comes back empty; an operation called on the
\* exhausted stream runs to its return (there is always a next step until it
\* has returned) and returns the empty result: count 0, toArray [], findFirst
\* empty, allMatch true, anyMatch false.
C12_ExhaustionIsPermanent ==
    /\ (sawEmpty /\ pc = "give" /\ lvl = Terminal) => ~isPresent(item)
    /\ CalledOnExhausted
           => /\ sawEmpty
              /\ ~Done => ENABLED StreamNext
              /\ Done => CASE op.name = "count" -> result = 0
                           [] op.name = "toArray" -> result = <<>>
                           [] op.name = "findFirst" -> result = OptionalEmpty
                           [] op.name = "allMatch" -> result = TRUE
                           [] op.name = "anyMatch" -> result = FALSE

\* distinct() over [2, 1]: count() returned 2, then findFirst() returned empty
C12_Witness ==
    /\ IsFinite /\ stream.src.array = <<2, 1>> /\ Kinds = <<"distinct">>
    /\ CalledOnExhausted
    /\ earlier[1].op.name = "count" /\ earlier[1].result = 2
    /\ Done /\ op.name = "findFirst" /\ result = OptionalEmpty
    /\ sawEmpty /\ pulled = 2

\* C13: collect(supplier, accumulator, combiner) returns the container that
\* one call of the supplier made, after the accumulator has been applied to
\* it once per element in pull order; the combiner is never invoked.
C13_CollectReturnsContainer ==
    (IsFinite /\ IsReplayable(stream.ops) /\ op.name = "collect3" /\ Done)
        => /\ result = Returned(Yields(stream.ops, stream.src.array))
           /\ invocations.supplier = 1
           /\ invocations.accumulator = Len(Yields(stream.ops, stream.src.array))
           /\ invocations.combiner = 0

\* C14: collect(collector) calls the collector's supplier once, before any
\* pull; its accumulator once per element, in pull order, on the container
\* the supplier made; its finisher once, after the pull that came back
\* empty; and it returns what the finisher returns.
C14_CollectorProtocol ==
    (IsFinite /\ IsReplayable(stream.ops) /\ op.name = "collect")
        => LET out == Yields(stream.ops, stream.src.array)
           IN  /\ invocations.supplier = IF pc = "idle" THEN 0 ELSE 1
               /\ invocations.supplier = 0 => asked[Len(stream.ops)] = 0 /\ pulled = 0
               /\ invocations.accumulator = Len(container)
               /\ Len(container) <= Len(out)
               /\ container = SubSeq(out, 1, Len(container))
               /\ invocations.finisher = IF Done THEN 1 ELSE 0
               /\ invocations.combiner = 0
               /\ Done => /\ container = out
                          /\ sawEmpty
                          /\ result = CollectorFinisher(op.fn, out)

\* filter(even) over [2, 1, 2] collected by the size collector: 2
C14_Witness ==
    /\ IsFinite /\ stream.src.array = <<2, 1, 2>> /\ stream.ops = <<OpFilter("even")>>
    /\ op.name = "collect" /\ op.fn = "size"
    /\ Done /\ result = 2 /\ container = <<2, 2>>
    /\ invocations.supplier = 1 /\ invocations.accumulator = 2 /\ invocations.finisher = 1

\* f(...f(f(e1, e2), e3)..., en), from the seed when there is one: an Optional
FoldLeft(f, seed, list) ==
    LET F[i \in 0..Len(list)] ==
            IF i = 0 THEN seed
            ELSE IF F[i - 1] = OptionalEmpty THEN OptionalOf(list[i])
            ELSE OptionalOf(ApplyBiFunction(f, get(F[i - 1]), list[i]))
    IN  F[Len(list)]

\* C15: reduce(f) without a seed returns empty on an empty sequence and the
\* left fold of the elements in pull order otherwise; reduce(f, seed) returns
\* the seed on an empty sequence and the left fold from the seed otherwise;
\* the sum of [1, 2, 3, 4] is 10.
C15_ReduceLeftFold ==
    (IsFinite /\ IsReplayable(stream.ops) /\ op.name = "reduce" /\ Done)
        => LET out == Yields(stream.ops, stream.src.array)
           IN  /\ result = FoldLeft(op.fn, op.initialValue, out)
               /\ out = <<>> => result = op.initialValue
               /\ (out = <<1, 2, 3, 4>> /\ op.fn = "sum" /\ op.initialValue = OptionalEmpty)
                      => result = OptionalOf(10)
               /\ pulled = Len(stream.src.array)

\* (3 - 1) - 1 = 1, and not 3 - (1 - 1)
C15_Witness ==
    /\ IsFinite /\ stream.src.array = <<3, 1, 1>> /\ stream.ops = <<>>
    /\ op.name = "reduce" /\ op.fn = "sub" /\ op.initialValue = OptionalEmpty
    /\ Done /\ result = OptionalOf(1)

\* x is strictly beyond m in the direction the operation looks for
Beats(name, c, x, m) ==
    IF name = "max" THEN OrderUnder(c, x, m) > 0 ELSE OrderUnder(c, x, m) < 0

\* the positions of list that hold an element no other element beats
Extremal(name, c, list) ==
    {i \in 1..Len(list) : \A j \in 1..Len(list) : ~Beats(name, c, list[j], list[i])}

\* C16: max(c) and min(c) return empty on an empty sequence, and otherwise
\* the first pulled of the elements that no element exceeds (max) or
\* undercuts (min) under c; every element of the source is pulled once.
C16_MaxMinFirstExtremal ==
    (IsFinite /\ IsReplayable(stream.ops) /\ op.name \in {"max", "min"} /\ Done)
        => LET out == Yields(stream.ops, stream.src.array)
               best == Extremal(op.name, op.fn, out)
           IN  /\ out = <<>> => result = OptionalEmpty
               /\ out # <<>> =>
                      /\ best # {}
                      /\ result = OptionalOf(out[CHOOSE i \in best : \A j \in best : i <= j])
               /\ pulled = Len(stream.src.array)
               /\ source.index = Len(stream.src.array) + 1
               /\ count = Len(out)

\* under the parity ordering 1 and 3 are both greatest in [1, 2, 3]: max is 1
C16_Witness ==
    /\ IsFinite /\ stream.src.array = <<1, 2, 3>> /\ stream.ops = <<>>
    /\ op.name = "max" /\ op.fn = "mod2"
    /\ Done /\ result = OptionalOf(1) /\ pulled = 3

(***************************************************************************)
(* Ranges: the caller's start, end and step                                *)
(***************************************************************************)
IsRange(kind) == stream.src.kind = kind /\ stream.ops = <<>> /\ op.name = "toArray"

\* the magnitude of the caller's step, 1 when omitted
StepSize == IF stream.src.step = OptionalEmpty THEN 1
            ELSE IF stream.src.step[1] < 0 THEN -stream.src.step[1] ELSE stream.src.step[1]
\* the step pointing from start toward end
StepToward == IF stream.src.start < stream.src.end THEN StepSize ELSE -StepSize
Distance == IF stream.src.start < stream.src.end
            THEN stream.src.end - stream.src.start ELSE stream.src.start - stream.src.end

\* the k for which start + k * step lies strictly before end, and those for
\* which it lies before or at end
StepsBefore ==
    {k \in 0..Distance :
        IF stream.src.start < stream.src.end
        THEN stream.src.start + k * StepToward < stream.src.end
        ELSE stream.src.start + k * StepToward > stream.src.end}
StepsUpTo ==
    {k \in 0..Distance :
        IF stream.src.start < stream.src.end
        THEN stream.src.start + k * StepToward <= stream.src.end
        ELSE stream.src.start + k * StepToward >= stream.src.end}

\* start, start + s, start + 2s, ... for the k of K, an initial segment
Progression(K) == [i \in 1..Cardinality(K) |-> stream.src.start + (i - 1) * StepToward]

\* C17: range(start, end, step).toArray() is start, start + s, start + 2s, ...
\* with s the step pointing from start toward end (1 or -1 when omitted): all
\* the values strictly before end and no other, nothing when start = end;
\* range(0, 5) is [0, 1, 2, 3, 4] and range(5, 0) is [5, 4, 3, 2, 1].
C17_RangeStopsBeforeEnd ==
    (IsRange("range") /\ Done)
        => /\ result = Progression(StepsBefore)
           /\ \A i \in 1..Len(result) :
                 IF stream.src.start < stream.src.end
                 THEN result[i] < stream.src.end ELSE result[i] > stream.src.end
           /\ stream.src.start = stream.src.end => result = <<>>
           /\ (stream.src.start = 0 /\ stream.src.end = 5 /\ stream.src.step = OptionalEmpty)
                  => result = <<0, 1, 2, 3, 4>>
           /\ (stream.src.start = 5 /\ stream.src.end = 0 /\ stream.src.step = OptionalEmpty)
                  => result = <<5, 4, 3, 2, 1>>

\* range(5, 0, 2), the step given with the sign that points away from end
C17_Witness ==
    /\ IsRange("range") /\ Done
    /\ stream.src.start = 5 /\ stream.src.end = 0 /\ stream.src.step = OptionalOf(2)
    /\ result = <<5, 3, 1>>

\* C18: rangeClosed(start, end, step).toArray() is exactly the values
\* start + k * s, k = 0, 1, 2, ..., that lie between start and end inclusive:
\* end itself when a whole number of steps reaches it, and never a value
\* past end; rangeClosed(0, 5, 2) is [0, 2, 4].
C18_RangeClosedWithinBound ==
    (IsRange("rangeClosed") /\ Done)
        => /\ result = Progression(StepsUpTo)
           /\ \A i \in 1..Len(result) :
                 IF stream.src.start < stream.src.end
                 THEN result[i] <= stream.src.end ELSE result[i] >= stream.src.end
           /\ (Distance % StepSize = 0) => result[Len(result)] = stream.src.end
           /\ (stream.src.start = 0 /\ stream.src.end = 5 /\ stream.src.step = OptionalOf(2))
                  => result = <<0, 2, 4>>

\* rangeClosed(0, 5, 2): the step overshoots 5
C18_Witness ==
    /\ IsRange("rangeClosed") /\ Done
    /\ stream.src.start = 0 /\ stream.src.end = 5 /\ stream.src.step = OptionalOf(2)
    /\ result = <<0, 2, 4>>

IsConcat == stream.src.kind = "concat"

\* C19: concat(s1, s2).toArray() over two array streams is the elements of
\* s1 in order followed by those of s2 in order, either or both being empty
\* included; s2 is not asked for an element before s1 has handed over its
\* last one and, when toArray() returns, each element was pulled once.
C19_ConcatInOrder ==
    IsConcat
        => /\ source.stream2.index > 1 => source.stream1.index = Len(stream.src.first) + 1
           /\ pulled = (source.stream1.index - 1) + (source.stream2.index - 1)
           /\ (Done /\ op.name = "toArray")
                  => /\ result = stream.src.first \o stream.src.second
                     /\ pulled = Len(stream.src.first) + Len(stream.src.second)

\* concat([2, 1], [3, 3])
C19_Witness ==
    /\ IsConcat /\ stream.src.first = <<2, 1>> /\ stream.src.second = <<3, 3>>
    /\ Done /\ op.name = "toArray" /\ result = <<2, 1, 3, 3>>

\* the caller has created the stream and called no terminal operation yet
Declaring == pc = "idle" /\ earlier = <<>>

\* C20: from the creation of a stream until its first terminal operation is
\* called, whatever intermediate operations have been declared, no function
\* of the caller has been invoked, no element has been pulled or asked for,
\* the source is as it was created and every processor declared is unused.
C20_DeclaringDoesNoWork ==
    Declaring
        => /\ invocations = NoInvocations
           /\ predCalls = 0
           /\ pulled = 0
           /\ ~processingStarted
           /\ source = ofSource(stream.src)
           /\ \A k \in 0..Len(stream.ops) : asked[k] = 0
           /\ procs = DeclareAll(<<>>, SubSeq(stream.ops, 1, Len(procs)))
           /\ \A i \in 1..Len(procs) :
                 /\ procs[i].inputs = <<>>
                 /\ procs[i].emitted = 0
                 /\ ~isPresent(procs[i].distinctList)
                 /\ ~isPresent(procs[i].sortedList)

\* distinct().sorted(reverse) declared on the infinite source
C20_Witness ==
    /\ Declaring /\ Declared
    /\ ~IsFinite /\ stream.src.kind = "iterate"
    /\ Kinds = <<"distinct", "sorted">>
    /\ Len(procs) = 2 /\ pulled = 0

(***************************************************************************)
(* anyMatch on an empty sequence                                           *)
(***************************************************************************)
AnyMatchOnEmpty == op.name = "anyMatch" /\ EmptySequence

\* C27 as stated: anyMatch on an empty sequence returns true without ever
\* invoking the predicate, like allMatch and noneMatch.
C27_AnyMatchOnEmptyIsTrue ==
    (Done /\ AnyMatchOnEmpty) => (result = TRUE /\ predCalls = 0)

\* C27: anyMatch on an empty sequence returns false, the opposite of what
\* allMatch and noneMatch return on it, and never invokes the predicate.
C27_AnyMatchOnEmptyIsFalse ==
    /\ AnyMatchOnEmpty => predCalls = 0
    /\ (Done /\ AnyMatchOnEmpty) => result = FALSE
    /\ (Done /\ EmptySequence /\ op.name \in {"allMatch", "noneMatch"})
          => result = TRUE

\* anyMatch has returned on a sequence of which filter(never) let nothing pass
C27_Witness ==
    /\ Done /\ AnyMatchOnEmpty
    /\ IsFinite /\ Len(stream.src.array) = 2
    /\ Kinds = <<"filter">> /\ stream.ops[1].fn = "never"
    /\ pulled = 2 /\ result = FALSE /\ predCalls = 0

(***************************************************************************)
(* StreamIterator.tryAdvance                                               *)
(***************************************************************************)
\* what a tryAdvance(consumer) call that was the i-th call on the stream, with
\* the result r and with the consumer's notes c, must have done
TryAdvanced(out, i, r, c) ==
    LET before == DeliveredBefore(i - 1)
    IN  IF before < Len(out)
        THEN r = TRUE /\ c = <<out[before + 1]>>
        ELSE r = FALSE /\ c = <<>>

\* C23: tryAdvance(consumer) on a stream that has a next value applies the
\* consumer exactly once, to that value, and returns true, and the value is
\* consumed (the toArray() called next starts after it); on a stream with no
\* next value it returns false and the consumer is not called.
C23_TryAdvance ==
    (IsFinite /\ IsReplayable(stream.ops))
        => LET out == Yields(stream.ops, stream.src.array)
               n == Len(earlier)
           IN  /\ \A i \in 1..n :
                     earlier[i].op.name = "tryAdvance"
                         => TryAdvanced(out, i, earlier[i].result, earlier[i].container)
               /\ (Done /\ op.name = "tryAdvance")
                      => TryAdvanced(out, n + 1, result, container)
               /\ (op.name = "tryAdvance" /\ ~Done) => Len(container) = 0
               /\ (Done /\ op.name = "toArray" /\ n >= 1
                        /\ earlier[n].op.name = "tryAdvance" /\ earlier[n].result = TRUE)
                      => result = SubSeq(out, DeliveredBefore(n - 1) + 2, Len(out))

\* filter(even) over [1, 2]: the first tryAdvance gave 2 to its consumer and
\* returned true, the second returned false without calling its consumer
C23_Witness ==
    /\ IsFinite /\ stream.src.array = <<1, 2>>
    /\ Kinds = <<"filter">> /\ stream.ops[1].fn = "even"
    /\ Len(earlier) = 1 /\ earlier[1].op.name = "tryAdvance"
    /\ earlier[1].result = TRUE /\ earlier[1].container = <<2>>
    /\ Done /\ op.name = "tryAdvance" /\ result = FALSE /\ container = <<>>

(***************************************************************************)
(* The distinct stage: one computation, on the first request               *)
(***************************************************************************)
\* the elements the stage at i has emitted and still holds, when the request
\* just answered gave item
Emitting(i, o, buffer) == (IF isPresent(o) THEN <<get(o)>> ELSE <<>>) \o buffer

\* what one step does to the distinct stage at i
DistinctStep(i) ==
    LET p == procs[i]
        q == procs'[i]
        e == stream.ops[i].fn
    IN  (p.kind = "distinct" /\ q # p)
            => IF Len(q.inputs) > Len(p.inputs)
               \* add(): the input is queued, nothing is tested or computed
               THEN /\ q = [p EXCEPT !.inputs = Append(p.inputs, get(item))]
                    /\ ~isPresent(p.distinctList)
                    /\ invocations' = invocations
               ELSE IF ~isPresent(p.distinctList)
               \* the first processAndGetNext()
               THEN /\ isPresent(q.distinctList)
                    /\ q.inputs = <<>>
                    /\ IsDistinctOf(Emitting(i, item', get(q.distinctList)), p.inputs, e)
                    /\ isPresent(item') <=> p.inputs # <<>>
                    /\ invocations'.fn >= invocations.fn
                    /\ Len(p.inputs) >= 2 => invocations'.fn > invocations.fn
                    /\ lvl' = i + 1
               \* a later processAndGetNext()
               ELSE /\ isPresent(q.distinctList)
                    /\ q.inputs = p.inputs
                    /\ get(p.distinctList) = Emitting(i, item', get(q.distinctList))
                    /\ isPresent(item')
                    /\ invocations' = invocations
                    /\ lvl' = i + 1

\* nothing has left the distinct stage at i
NothingEmitted(i) ==
    /\ \A k \in (i + 1)..Len(procs) : procs[k].inputs = <<>> /\ procs[k].emitted = 0
    /\ Delivered = 0
    /\ invocations.fn = 0

\* C30: a distinct stage that has not been asked for an output yet has
\* emitted nothing and tested nothing; its first processAndGetNext() empties
\* its queue and computes the whole output from it, invoking the equality
\* test; every later processAndGetNext() emits the next element of that
\* output and invokes no equality test.
C30_DistinctComputesOnce ==
    [][\A i \in 1..Len(procs) :
          /\ DistinctStep(i)
          /\ (Kinds[i] = "distinct" /\ ~isPresent(procs[i].distinctList))
                 => NothingEmitted(i)]_vars

\* distinct(mod2) over [1, 3, 2]: two elements emitted, the queue is empty
\* and the equality test was invoked twice
C30_Witness ==
    /\ IsFinite /\ stream.src.array = <<1, 3, 2>>
    /\ Kinds = <<"distinct">> /\ stream.ops[1].fn = "mod2"
    /\ Done /\ op.name = "toArray" /\ result = <<1, 2>>
    /\ procs[1].inputs = <<>> /\ procs[1].distinctList = OptionalOf(<<>>)
    /\ invocations.fn = 2

(***************************************************************************)
(* flatMapList, skip, flatMapOptional                                      *)
(***************************************************************************)
\* f(e1) ++ f(e2) ++ ... ++ f(en)
RECURSIVE Concatenation(_, _)
Concatenation(f, list) ==
    IF list = <<>> THEN <<>>
    ELSE ApplyListFunction(f, Head(list)) \o Concatenation(f, Tail(list))

\* C25: flatMapList(f).toArray() over a finite input e1, ..., en is the
\* concatenation f(e1) ++ ... ++ f(en), in input order, whichever of the lists
\* are empty and however many elements the others have.
C25_FlatMapListConcatenates ==
    (IsFinite /\ Kinds = <<"flatMapList">> /\ Done /\ op.name = "toArray")
        => result = Concatenation(stream.ops[1].fn, stream.src.array)

\* C26: skip(n).toArray() over a sequence of length m is its elements at the
\* positions n + 1, ..., m, in order (nothing when n >= m), and the whole
\* sequence when n is negative.
C26_SkipDropsFirstN ==
    (IsFinite /\ Kinds = <<"skip">> /\ Done /\ op.name = "toArray")
        => LET n == stream.ops[1].n
               m == Len(stream.src.array)
           IN  result = IF n < 0 THEN stream.src.array
                        ELSE SubSeq(stream.src.array, n + 1, m)

\* skip(-1) over [2, 1] skipped nothing
C26_Witness ==
    /\ IsFinite /\ stream.src.array = <<2, 1>>
    /\ Kinds = <<"skip">> /\ stream.ops[1].n = -1
    /\ Done /\ op.name = "toArray" /\ result = <<2, 1>>
    /\ procs[1].skipped = 0

\* the values of the present results of f over the list, in order
RECURSIVE PresentValues(_, _)
PresentValues(f, list) ==
    IF list = <<>> THEN <<>>
    ELSE LET o == ApplyOptionalFunction(f, Head(list))
         IN  (IF isPresent(o) THEN <<get(o)>> ELSE <<>>) \o PresentValues(f, Tail(list))

IsFlatMapOptional == Kinds = <<"flatMapOptional">>
IsMapFilterMap ==
    /\ Kinds = <<"map", "filter", "map">>
    /\ stream.ops[1].fn \in OptionalFunctions
    /\ stream.ops[2].fn = "isPresent" /\ stream.ops[3].fn = "get"

\* C24: over a finite input, flatMapOptional(f).toArray() and
\* map(f).filter(o => o.isPresent()).map(o => o.get()).toArray() are the same
\* sequence: the values of the present results of f, in input order.
C24_FlatMapOptionalEquivalence ==
    (IsFinite /\ Done /\ op.name = "toArray" /\ (IsFlatMapOptional \/ IsMapFilterMap))
        => result = PresentValues(stream.ops[1].fn, stream.src.array)

\* flatMapOptional(halfOfEven) over [2, 1, 2] dropped the empty result
C24_Witness ==
    /\ IsFinite /\ stream.src.array = <<2, 1, 2>>
    /\ IsFlatMapOptional /\ stream.ops[1].fn = "halfOfEven"
    /\ Done /\ op.name = "toArray" /\ result = <<1, 1>>
    /\ invocations.fn = 3

(***************************************************************************)
(* An empty pull                                                           *)
(***************************************************************************)
\* the pipeline has answered the terminal operation's pull with empty
PulledEmpty == pc = "give" /\ lvl = Terminal /\ ~isPresent(item)

SourceExhausted == ~isPresent(SourceNext(source).out)

\* the stage holds a queued input or an output it has not handed on yet
Holds(p) ==
    \/ Len(p.inputs) > 0
    \/ Len(p.outputList) > 0
    \/ isPresent(p.distinctList) /\ Len(get(p.distinctList)) > 0
    \/ isPresent(p.sortedList) /\ Len(get(p.sortedList)) > 0

NothingHeld == \A i \in 1..Len(procs) : ~Holds(procs[i])

\* the limit stages that have emitted as many elements as they may
LimitsReached ==
    {i \in 1..Len(procs) : procs[i].kind = "limit" /\ procs[i].emitted >= procs[i].maxSize}

\* C28 as stated: the pipeline answers a pull with empty only when the source
\* is exhausted and no stage holds a queued input or a pending output.
C28_EmptyOnlyWhenSourceExhausted ==
    PulledEmpty => (SourceExhausted /\ NothingHeld)

\* C28: the pipeline answers a pull with empty only when a limit stage has
\* emitted its bound and no stage after it holds a queued input or a pending
\* output, or when the source is exhausted and no stage at all holds one: an
\* input for which a stage yields nothing (rejected by a filter, dropped by
\* skip, flattened to no output) makes the pipeline pull again, not answer.
C28_EmptyOnlyWhenExhausted ==
    PulledEmpty
        => IF LimitsReached # {}
           THEN \E i \in LimitsReached : \A k \in (i + 1)..Len(procs) : ~Holds(procs[k])
           ELSE SourceExhausted /\ NothingHeld

\* filter(even).flatMapList(below) over [1, 2, 3]: 1 and 3 were rejected, 2
\* became [1], and the one empty pull came after the third element
C28_Witness ==
    /\ IsFinite /\ stream.src.array = <<1, 2, 3>>
    /\ Kinds = <<"filter", "flatMapList">>
    /\ PulledEmpty /\ op.name = "toArray" /\ container = <<1>>
    /\ pulled = 3 /\ asked[2] = 2 /\ SourceExhausted /\ NothingHeld

(***************************************************************************)
(* hasNext() of a processor                                                *)
(***************************************************************************)
\* some number of processAndGetNext() calls, at most n and with no add() in
\* between, returns a present value
RECURSIVE ProducesWithin(_, _)
ProducesWithin(p, n) ==
    /\ n > 0
    /\ LET r == processAndGetNext(p)
       IN  isPresent(r.out) \/ ProducesWithin(r.proc, n - 1)

\* every call consumes a queued input or yields a held output, or changes
\* nothing: more calls than the stage holds elements show nothing new
CanProduce(p) == ProducesWithin(p, Len(p.inputs) + Len(p.outputList) + 2)

HasNextKinds == {"map", "filter", "flatMapList", "distinct"}

\* C29 as stated: hasNext() of a map, filter, list-flatten or distinct
\* processor is true exactly when some number of processAndGetNext() calls
\* with no add() in between returns a present value.
C29_HasNextIffCanProduce ==
    \A i \in 1..Len(procs) :
        procs[i].kind \in HasNextKinds => (hasNext(procs[i]) <=> CanProduce(procs[i]))

\* C29: hasNext() of a map, filter, list-flatten or distinct processor is true
\* exactly when the stage holds a queued input or an output not handed on
\* yet.  When it is false no processAndGetNext() call returns a present
\* value; when it is true a map or distinct stage returns one, while a filter
\* or list-flatten stage may use up its queued inputs and return none.
C29_HasNextIffHolds ==
    \A i \in 1..Len(procs) :
        LET p == procs[i]
        IN  p.kind \in HasNextKinds
                => /\ hasNext(p) <=> Holds(p)
                   /\ CanProduce(p) => hasNext(p)
                   /\ (p.kind \in {"map", "distinct"} /\ hasNext(p)) => CanProduce(p)

\* a flatten stage holds the input 1, of which below makes the empty list:
\* hasNext() is true and no call returns a value
C29_Witness ==
    /\ Kinds = <<"flatMapList">> /\ stream.ops[1].fn = "below"
    /\ Len(procs) = 1 /\ procs[1].inputs = <<1>> /\ procs[1].outputList = <<>>
    /\ hasNext(procs[1]) /\ ~CanProduce(procs[1])
    /\ ~isPresent(processAndGetNext(procs[1]).out)

(***************************************************************************)
(* StreamIterator.hasNext                                                  *)
(***************************************************************************)
\* getNext() has returned and the call before it was hasNext()
GetNextAfterHasNext ==
    /\ Done /\ op.name = "getNext"
    /\ earlier # <<>> /\ earlier[Len(earlier)].op.name = "hasNext"

\* C22: hasNext() returns true exactly when the getNext() called next returns
\* a present value, and false exactly when it returns empty.
C22_HasNextIsAccurate ==
    GetNextAfterHasNext => (earlier[Len(earlier)].result = isPresent(result))

(***************************************************************************)
(* Errors raised by the caller's functions                                 *)
(***************************************************************************)
\* a stage of ops raises an error when x comes down the chain
RECURSIVE StageThrows(_, _)
StageThrows(ops, x) ==
    /\ ops # <<>>
    /\ \/ Throws(Head(ops).fn, x)
       \/ StageThrows(Tail(ops),
                      IF Head(ops).kind = "map" THEN ApplyTransformer(Head(ops).fn, x) ELSE x)

\* what x has become at the end of a chain of map and peek stages
RECURSIVE ValueAfter(_, _)
ValueAfter(ops, x) ==
    IF ops = <<>> THEN x
    ELSE ValueAfter(Tail(ops),
                    IF Head(ops).kind = "map" THEN ApplyTransformer(Head(ops).fn, x) ELSE x)

\* x reaches the peek stage of ops
RECURSIVE ReachesPeek(_, _)
ReachesPeek(ops, x) ==
    /\ ops # <<>>
    /\ \/ Head(ops).kind = "peek"
       \/ /\ ~Throws(Head(ops).fn, x)
          /\ ReachesPeek(Tail(ops), ApplyTransformer(Head(ops).fn, x))

\* the stages before the peek stage
RECURSIVE BeforePeek(_)
BeforePeek(ops) ==
    IF ops = <<>> \/ Head(ops).kind = "peek" THEN <<>> ELSE <<Head(ops)>> \o BeforePeek(Tail(ops))

IsForEach == IsFinite /\ op.name = "forEach"

\* the source positions whose element makes a stage or the forEach consumer
\* raise an error
ThrowPositions ==
    {j \in 1..Len(stream.src.array) :
        LET x == stream.src.array[j]
        IN  StageThrows(stream.ops, x) \/ Throws(op.fn, ValueAfter(stream.ops, x))}

\* the source position at which the i-th forEach call ends
CallEnd(i) ==
    IF i = 0 THEN 0
    ELSE IF i <= Cardinality(ThrowPositions)
    THEN CHOOSE j \in ThrowPositions : Cardinality({k \in ThrowPositions : k <= j}) = i
    ELSE Len(stream.src.array)

\* what the forEach consumer is given of the source positions K, in order
DeliveredOf(K) ==
    LET a == stream.src.array
        kept == Restrict(a, {j \in K : ~StageThrows(stream.ops, a[j])})
    IN  [k \in 1..Len(kept) |-> ValueAfter(stream.ops, kept[k])]

\* what the peek consumer is given of the source positions K, in order
PeekedOf(K) ==
    LET a == stream.src.array
        kept == Restrict(a, {j \in K : ReachesPeek(stream.ops, a[j])})
    IN  [k \in 1..Len(kept) |-> ValueAfter(BeforePeek(stream.ops), kept[k])]

IsPrefix(s, t) == Len(s) <= Len(t) /\ s = SubSeq(t, 1, Len(s))

\* C21: when forEach is called again and again on an array stream whose map
\* transformer, peek consumer or forEach consumer raises an error for some
\* elements, each call ends with the error at the first such element it
\* meets, without a result and without delivering anything after it; a call
\* that meets none returns.  The i-th call delivers to the forEach consumer
\* exactly the elements between the (i-1)-th and the i-th failing element
\* that reach it, and the peek consumer has been given, once each and in
\* order, the elements up to the last failing one that reach the peek stage:
\* what was delivered stays delivered and nothing is delivered twice.
C21_FailureEndsCallOnly ==
    IsForEach
        => LET n == Len(earlier)
               failing == Cardinality(ThrowPositions)
               this == (CallEnd(n) + 1)..CallEnd(n + 1)
           IN  /\ \A i \in 1..n :
                     /\ earlier[i].container = DeliveredOf((CallEnd(i - 1) + 1)..CallEnd(i))
                     /\ earlier[i].failed = (i <= failing)
               /\ pc \in {"done", "failed"}
                     => /\ container = DeliveredOf(this)
                        /\ (pc = "failed") = (n + 1 <= failing)
                        /\ invocations.peeked = PeekedOf(1..CallEnd(n + 1))
               /\ pc = "failed" => result = "pending"
               /\ IsPrefix(container, DeliveredOf(this))
               /\ IsPrefix(PeekedOf(1..CallEnd(n)), invocations.peeked)
               /\ IsPrefix(invocations.peeked, PeekedOf(1..CallEnd(n + 1)))

\* peek(note).map(failOn2) over [1, 2, 3]: the first forEach delivered 2 and
\* ended with the error the transformer raised for 2, the second delivered 4
\* and returned; the peek consumer was given 1, 2 and 3
C21_Witness ==
    /\ IsForEach /\ stream.src.array = <<1, 2, 3>>
    /\ Kinds = <<"peek", "map">> /\ stream.ops[2].fn = "failOn2" /\ op.fn = "note"
    /\ Len(earlier) = 1 /\ earlier[1].failed /\ earlier[1].container = <<2>>
    /\ Done /\ container = <<4>>
    /\ invocations.peeked = <<1, 2, 3>>

(***************************************************************************)
(* add() and processAndGetNext() called on one processor                   *)
(***************************************************************************)
\* the call that the step makes on the processor
Calls(name) == earlier' # earlier /\ earlier'[Len(earlier')].name = name

\* C31: add(input), for every processor kind, appends the input at the tail
\* of the input queue and does nothing else: the inputs queued before, the
\* pending output list, the distinct and sort buffers and the counters of
\* the stage are as before, no function of the caller is invoked and nothing
\* is returned or emitted.
C31_AddOnlyEnqueues ==
    [][Calls("add")
          => LET p == procs[1]
                 q == procs'[1]
                 input == earlier'[Len(earlier')].input
             IN  /\ q.inputs = Append(p.inputs, input)
                 /\ SubSeq(q.inputs, 1, Len(p.inputs)) = p.inputs
                 /\ q.outputList = p.outputList
                 /\ q.distinctList = p.distinctList
                 /\ q.sortedList = p.sortedList
                 /\ q.emitted = p.emitted /\ q.skipped = p.skipped
                 /\ q.kind = p.kind /\ q.fn = p.fn /\ q.maxSize = p.maxSize
                 /\ invocations' = invocations
                 /\ container' = container /\ item' = item]_vars

\* a flatten stage that still holds the output 2 of the input 3 has been
\* given 1 and then 2: both are queued, in that order, behind nothing
C31_Witness ==
    /\ pc = "processor" /\ procs[1].kind = "flatMapList" /\ procs[1].fn = "below"
    /\ Len(earlier) = 4
    /\ earlier[1].name = "add" /\ earlier[1].input = 3
    /\ earlier[2].name = "processAndGetNext"
    /\ earlier[3].name = "add" /\ earlier[4].name = "add"
    /\ procs[1].inputs = <<1, 2>> /\ procs[1].outputList = <<2>>
    /\ container = <<1>> /\ invocations.fn = 1


\* the processor after the loop "while (p.hasNext()) p.processAndGetNext()"
\* has made at most n calls
RECURSIVE PullWhileHasNext(_, _)
PullWhileHasNext(p, n) ==
    IF n = 0 \/ ~hasNext(p) THEN p ELSE PullWhileHasNext(processAndGetNext(p).proc, n - 1)

\* the calls that are enough to pull everything the processor holds, were
\* each value it holds pulled by a call of its own, and two more
EnoughCalls(p) ==
    Len(p.inputs) + (IF isPresent(p.distinctList) THEN Len(get(p.distinctList)) ELSE 0) + 2

\* C32: whatever calls of add() and processAndGetNext() a distinct processor
\* has had, once no more inputs are added the loop "while hasNext() pull"
\* ends after finitely many calls, with hasNext() false and no input left in
\* the queue: every input added, also one added after the first pull, has
\* been emitted or suppressed as a duplicate.
C32_DistinctStrandsNoInput ==
    (pc = "processor" /\ procs[1].kind = "distinct")
        => LET p == PullWhileHasNext(procs[1], EnoughCalls(procs[1]))
           IN  ~hasNext(p) /\ p.inputs = <<>>


\* C33: the list-flatten stage leaves the lists of the caller's function as
\* they are, and shared lists change nothing of its output: when f returns
\* one list object L for every input, L keeps its contents at every moment,
\* and flatMapList(f).toArray() has all the elements of L once for each
\* input, with L as the caller made it after the pipeline is drained.
C33_SharedListUntouched ==
    /\ \A i \in 1..Len(procs) :
           (pc # "processor" /\ procs[i].kind = "flatMapList")
               => procs[i].sharedList = SharedList
    /\ (IsFinite /\ Kinds = <<"flatMapList">> /\ stream.ops[1].fn = "shared"
            /\ Done /\ op.name = "toArray")
           => /\ result = Concatenation("shared", stream.src.array)
              /\ Len(result) = Len(SharedList) * Len(stream.src.array)
              /\ procs[1].sharedList = SharedList

====
